---- MODULE Spec2Model ----
(***************************************************************************)
(* Memory-augmented chat backend: the turn pipeline of routes/chat.py      *)
(* (chat_stream and chat_endpoint), the memory gateway of                  *)
(* memmachine_client.py and the web-search gateway of tavily_client.py.    *)
(*                                                                         *)
(* Python values whose type matters are kept with their type: a metadata   *)
(* value is a PyStr, a PyInt or PyNone, and == between a str and an int    *)
(* is false, as in Python.  Texts are sequences of words; the empty        *)
(* sequence is the empty string.                                           *)
(***************************************************************************)
EXTENDS Integers, Sequences, FiniteSets, TLC

\* ------------------------------------------------------------------ bounds
MaxTurns == 2
\* the longest list of facts a search response holds (longer than the cap)
MaxLongList == 32
\* the ids and the number of entries of the calls made on the library alone
MaxId == 3
MaxEpisodes == 2
MaxResults == 2

\* ------------------------------------------------------- program constants
\* Thread.project_id of a personal thread (None); project ids start at 1
NoProject == 0
ProfileCap == 30
CurrentCap == 20
OtherCap == 15

Users == {1, 2}
ThreadIds == {1, 2, 3, 4}
Projects == {1}
Slots == {1, 2}
Providers == {"openai", "anthropic", "google"}

\* ------------------------------------------------------------ Python values
\* v is the value's text: the decimal digits of an int, the characters of a str
PyInt(n) == [t |-> "int", v |-> ToString(n)]
PyText(s) == [t |-> "str", v |-> s]
PyNone == [t |-> "none", v |-> ""]
PyFloat(s) == [t |-> "float", v |-> s]
PyBool(b) == [t |-> "bool", v |-> IF b THEN "True" ELSE "False"]

\* str(x): the text of x, as a str
Str(x) == IF x.t = "none" THEN PyText("None") ELSE PyText(x.v)

\* bool(x): None, 0 and "" are falsy
Truthy(x) == CASE x.t = "none" -> FALSE
               [] x.t = "int" -> x.v # "0"
               [] OTHER -> x.v # ""

\* a == b on Python values: values of different types are never equal.
PyEq(a, b) == a.t = b.t /\ a.v = b.v

\* xs[:n]
Take(xs, n) == SubSeq(xs, 1, IF Len(xs) < n THEN Len(xs) ELSE n)

RECURSIVE SelectIdx(_, _, _)
\* the elements xs[i] with i in keep, in order
SelectIdx(xs, keep, i) ==
    IF i > Len(xs) THEN <<>>
    ELSE (IF i \in keep THEN <<xs[i]>> ELSE <<>>) \o SelectIdx(xs, keep, i + 1)

\* ------------------------------------------------------------ Scope resolver
APP_ORG_ID == "privategpt"

\* the f-strings f"user-{user_id}" and f"proj-{project_id}"
UserOrg(user_id) == "user-" \o ToString(user_id)
ProjPartition(project_id) == "proj-" \o ToString(project_id)

\* a mutant: the team scope keyed by the acting user
GetOrgAndProject_PerUserTeam(user_id, project_id) ==
    IF project_id = NoProject
    THEN <<UserOrg(user_id), "personal">>
    ELSE <<UserOrg(user_id), ProjPartition(project_id)>>

_get_org_and_project(user_id, project_id) ==
    IF project_id = NoProject
    THEN <<UserOrg(user_id), "personal">>
    ELSE <<APP_ORG_ID, ProjPartition(project_id)>>

\* ------------------------------------------------- Memory service (remote)
\* dict.update: the keys of n override those of m
MetaUpdate(m, n) ==
    [k \in (DOMAIN m) \cup (DOMAIN n) |-> IF k \in DOMAIN n THEN n[k] ELSE m[k]]

\* the loop that turns int values of the metadata into their text
\* (isinstance(value, int) holds for a bool as well)
StringifyInts(m) ==
    [k \in DOMAIN m |-> IF m[k].t \in {"int", "bool"} THEN Str(m[k]) ELSE m[k]]

\* the loop of add_memory: ints to their text, bools to "true" / "false"
StringifyIntsBools(m) ==
    [k \in DOMAIN m |-> IF m[k].t = "bool" THEN PyText(IF m[k].v = "True" THEN "true" ELSE "false")
                        ELSE IF m[k].t = "int" THEN Str(m[k]) ELSE m[k]]

AllFail == [get |-> "exc", create |-> FALSE, write |-> FALSE]
AllOk == [get |-> "ok", create |-> TRUE, write |-> TRUE]

WriteResult_Raising(o) == IF o.write THEN "true" ELSE "raise"

\* what add_memory / add_semantic_memory hand to the caller: the post and
\* raise_for_status are inside a try whose except logs and returns False
WriteResult(o) == IF o.write THEN "true" ELSE "false"

\* a mutant: the creation request sent without looking the scope up
ensure_project_exists_NoLookup(projects, user_id, project_id, o) ==
    LET scope == _get_org_and_project(user_id, project_id) IN
    IF o.create /\ scope \notin projects
    THEN [projects |-> projects \cup {scope}, ret |-> TRUE, calls |-> 1]
    ELSE [projects |-> projects, ret |-> FALSE, calls |-> 1]

\* ensure_project_exists: the remote scopes afterwards, the value returned and
\* the number of outbound calls.  o.get: the lookup answers ("ok": 200 exactly
\* when the scope exists), answers with an error status ("err") or raises
\* ("exc"); o.create: whether the service accepts the creation request.
ensure_project_exists(projects, user_id, project_id, o) ==
    LET scope == _get_org_and_project(user_id, project_id) IN
    IF o.get = "exc" THEN [projects |-> projects, ret |-> FALSE, calls |-> 1]
    ELSE IF o.get = "ok" /\ scope \in projects
    THEN [projects |-> projects, ret |-> TRUE, calls |-> 1]
    ELSE IF o.create /\ scope \notin projects
    THEN [projects |-> projects \cup {scope}, ret |-> TRUE, calls |-> 2]
    ELSE [projects |-> projects, ret |-> FALSE, calls |-> 2]

\* the metadata add_memory builds from the caller's
AddMemoryMeta(user_id, thread_id, project_id, role, metadata) ==
    LET m1 == MetaUpdate(metadata,
                 [thread_id |-> Str(PyInt(thread_id)),
                  user_id |-> Str(PyInt(user_id)),
                  role |-> PyText(role),
                  source |-> PyText("privategpt")])
        m2 == IF project_id # NoProject
              THEN MetaUpdate(m1, [project_id |-> Str(PyInt(project_id)),
                                   shared |-> PyText("true")])
              ELSE m1
    IN StringifyIntsBools(m2)

\* add_memory: the memory service afterwards.  Never raises.
add_memory(mm, user_id, content, thread_id, project_id, role, metadata, o) ==
    LET scope == _get_org_and_project(user_id, project_id)
        ens == ensure_project_exists(mm.projects, user_id, project_id, o)
        message == [scope |-> scope,
                    content |-> content,
                    producer |-> IF role = "user" THEN "user" ELSE "assistant",
                    produced_for |-> thread_id,
                    role |-> role,
                    metadata |-> AddMemoryMeta(user_id, thread_id, project_id, role, metadata)]
    IN [mm EXCEPT !.projects = ens.projects,
                  !.episodic = IF o.write THEN Append(@, message) ELSE @]

\* the metadata add_semantic_memory builds from the caller's
AddSemanticMeta(user_id, project_id, metadata) ==
    LET m1 == MetaUpdate(metadata,
                 [user_id |-> Str(PyInt(user_id)),
                  type |-> PyText("semantic"),
                  source |-> PyText("privategpt")])
        m2 == IF project_id # NoProject
              THEN MetaUpdate(m1, [project_id |-> Str(PyInt(project_id)),
                                   shared |-> PyText("true")])
              ELSE m1
        m3 == IF "thread_id" \in DOMAIN m2
              THEN MetaUpdate(m2, [thread_id |-> Str(m2["thread_id"])])
              ELSE m2
    IN StringifyInts(m3)

\* add_semantic_memory: the memory service afterwards.  Never raises.
add_semantic_memory(mm, user_id, content, project_id, metadata, o) ==
    LET scope == _get_org_and_project(user_id, project_id)
        ens == ensure_project_exists(mm.projects, user_id, project_id, o)
        message == [scope |-> scope,
                    content |-> content,
                    producer |-> "system",
                    produced_for |-> user_id,
                    role |-> "semantic",
                    metadata |-> AddSemanticMeta(user_id, project_id, metadata)]
    IN [mm EXCEPT !.projects = ens.projects,
                  !.semantic = IF o.write THEN Append(@, message) ELSE @]

\* ------------------------------------------------------- search_memories
\* The JSON of a search response.  A collection is a list of entries
\* (kind "list"), is missing or not of the expected container type (kind
\* "absent": the isinstance / key tests skip it) or, for an episodes
\* collection, is null (kind "null": list.extend(None) raises).  An entry is
\* a dict or not, holds the content key ("content" of an episode, "value" of
\* a semantic item) or not, and its metadata is a dict (md "dict"), null
\* (md "null") or missing (md "absent").
Entry(content, md, meta) ==
    [isdict |-> TRUE, has |-> TRUE, content |-> content, md |-> md, meta |-> meta]
EmptyMeta == [k \in {} |-> PyNone]
EmptyColl == [kind |-> "list", items |-> <<>>]
ListColl(items) == [kind |-> "list", items |-> items]
\* the request raised, or was answered with an error status and, possibly, a
\* body
FailedResponse == [ok |-> FALSE, ltm |-> EmptyColl, stm |-> EmptyColl, sem |-> EmptyColl]

\* dict.get(key): None when the key is missing
MetaGet(meta, key) == IF key \in DOMAIN meta THEN meta[key] ELSE PyNone

\* episode.get("metadata", {}): the default only when the key is missing
ItemMeta(e) == IF e.md = "absent" THEN [md |-> "dict", meta |-> EmptyMeta]
               ELSE [md |-> e.md, meta |-> e.meta]

\* the client-side test of one item against the thread filter; on a null
\* metadata the .get raises
ThreadMatches(item, thread_id) ==
    LET v == MetaGet(item.meta, "thread_id")
    IN Truthy(v) /\ PyEq(Str(v), Str(PyInt(thread_id)))

RECURSIVE ParseEpisodes(_, _, _, _)
\* the loop over all_episodes from entry i on; thread_id 0 is no filter.
\* acc: the results so far; raised: the loop ended in an exception.
ParseEpisodes(all, thread_id, i, acc) ==
    IF i > Len(all) THEN [items |-> acc, raised |-> FALSE]
    ELSE LET e == all[i] IN
         IF ~(e.isdict /\ e.has) THEN ParseEpisodes(all, thread_id, i + 1, acc)
         ELSE LET im == ItemMeta(e)
                  item == [episode_content |-> e.content, md |-> im.md, meta |-> im.meta]
              IN IF thread_id # 0
                 THEN IF im.md = "null" THEN [items |-> acc, raised |-> TRUE]
                      ELSE IF ThreadMatches(item, thread_id)
                           THEN ParseEpisodes(all, thread_id, i + 1, Append(acc, item))
                           ELSE ParseEpisodes(all, thread_id, i + 1, acc)
                 ELSE ParseEpisodes(all, thread_id, i + 1, Append(acc, item))

RECURSIVE ParseSemantic(_, _, _)
ParseSemantic(data, i, acc) ==
    IF i > Len(data) THEN acc
    ELSE LET e == data[i] IN
         IF e.isdict /\ e.has
         THEN LET im == ItemMeta(e) IN
              ParseSemantic(data, i + 1,
                  Append(acc, [profile_content |-> e.content, md |-> im.md, meta |-> im.meta]))
         ELSE ParseSemantic(data, i + 1, acc)

NoResults == [episodic_results |-> <<>>, semantic_results |-> <<>>]

\* a mutant: the status of the response is not looked at
RaisesForStatus_Never(resp) == FALSE

\* response.raise_for_status(): an error status ends the call before the body
\* is read
RaisesForStatus(resp) == ~resp.ok

\* search_memories on the response resp of the service: the request never
\* carries the thread; the filter is applied to the parsed episodes.  Any
\* exception ends the call with the results gathered so far.
\* a mutant: the thread restriction sent to the service
SearchPayload_ThreadFilter(user_id, query, thread_id, project_id, limit, types) ==
    LET scope == _get_org_and_project(user_id, project_id) IN
    [org_id |-> scope[1], project_id |-> scope[2], query |-> query,
     top_k |-> limit, types |-> types,
     filter |-> IF thread_id # 0 THEN "thread_id" ELSE "",
     group_by |-> "null", rerank |-> TRUE, include_metadata |-> TRUE]

\* the body of the POST to /api/v2/memories/search; thread_id 0 is None
SearchPayload(user_id, query, thread_id, project_id, limit, types) ==
    LET scope == _get_org_and_project(user_id, project_id) IN
    [org_id |-> scope[1], project_id |-> scope[2], query |-> query,
     top_k |-> limit, types |-> types, filter |-> "",
     group_by |-> "null", rerank |-> TRUE, include_metadata |-> TRUE]

search_memories(resp, thread_id, search_semantic, search_episodic) ==
    IF ~(search_semantic \/ search_episodic) THEN NoResults
    ELSE IF RaisesForStatus(resp) THEN NoResults
    ELSE IF resp.ltm.kind = "null" \/ resp.stm.kind = "null" THEN NoResults
    ELSE LET all == (IF resp.ltm.kind = "list" THEN resp.ltm.items ELSE <<>>)
                    \o (IF resp.stm.kind = "list" THEN resp.stm.items ELSE <<>>)
             ep == ParseEpisodes(all, thread_id, 1, <<>>)
         IN IF ep.raised
            THEN [episodic_results |-> ep.items, semantic_results |-> <<>>]
            ELSE [episodic_results |-> ep.items,
                  semantic_results |->
                      IF resp.sem.kind = "list"
                      THEN ParseSemantic(resp.sem.items, 1, <<>>) ELSE <<>>]

\* ------------------------------------------------------ Web search gateway
\* A text that is searched for a location is kept as the set of needles it
\* contains.  The needles of a location: its lower-cased text, that text
\* without spaces, its first word (only when it holds a space) and " la "
\* (only for Los Angeles).
Needle(form, loc) == [form |-> form, loc |-> loc]
HasSpace(loc) == loc.state # "" \/ loc.spaced
IsLosAngeles(loc) == loc.city = "Los Angeles"

AnswerVariations(loc) ==
    {Needle("lower", loc), Needle("nospace", loc)}
    \cup (IF HasSpace(loc) THEN {Needle("firstword", loc)} ELSE {})

ResultVariations(loc) ==
    {Needle("lower", loc), Needle("nospace", loc)}
    \cup (IF IsLosAngeles(loc) THEN {Needle("la", loc)} ELSE {})

NoLocation == [city |-> "", state |-> "", spaced |-> FALSE]

\* TavilyClient.search: the service's result, or the error dict on any failure
ErrorResult == [error |-> TRUE, answer |-> [present |-> FALSE, mentions |-> {}], results |-> <<>>]
TavilySearch(ok, result) == IF ok THEN result ELSE ErrorResult

RECURSIVE FormatItems(_, _, _, _)
\* the loop over the results: the numbered items kept
FormatItems(results, filter_location, idx, kept) ==
    IF idx > Len(results) THEN kept
    ELSE LET r == results[idx] IN
         IF filter_location # NoLocation
         THEN IF (ResultVariations(filter_location) \cap r.mentions) # {}
              THEN FormatItems(results, filter_location, idx + 1,
                       Append(kept, [part |-> "item", id |-> r.id, n |-> Len(kept) + 1]))
              ELSE FormatItems(results, filter_location, idx + 1, kept)
         ELSE FormatItems(results, filter_location, idx + 1,
                  Append(kept, [part |-> "item", id |-> r.id, n |-> idx]))

\* format_results_for_llm: the parts joined into the text; <<>> is ""
format_results_for_llm(search_result, filter_location) ==
    IF search_result.error THEN <<[part |-> "error", id |-> 0, n |-> 0]>>
    ELSE LET a == search_result.answer
             ans == IF ~a.present THEN <<>>
                    ELSE IF filter_location # NoLocation
                    THEN IF (AnswerVariations(filter_location) \cap a.mentions) # {}
                         THEN <<[part |-> "answer", id |-> 0, n |-> 0]>> ELSE <<>>
                    ELSE <<[part |-> "answer", id |-> 0, n |-> 0]>>
             temp == FormatItems(search_result.results, filter_location, 1, <<>>)
             res == IF search_result.results = <<>> THEN <<>>
                    ELSE IF temp # <<>>
                    THEN <<[part |-> "header", id |-> 0, n |-> 0]>> \o temp
                    ELSE IF filter_location # NoLocation
                    THEN <<[part |-> "marker", id |-> 0, n |-> 0]>>
                    ELSE <<>>
         IN ans \o res

\* ------------------------------------------------------------ chat.py helpers
\* A message is a sequence of lower-case words.
HasWord(message, words) == \E i \in 1..Len(message) : message[i] \in words
HasPhrase(message, a, b) ==
    \E i \in 1..(Len(message) - 1) : message[i] = a /\ message[i + 1] = b

should_search_web(message) ==
    \/ HasWord(message, {"search", "find", "google"}) \/ HasPhrase(message, "look", "up")
    \/ HasWord(message, {"latest", "recent", "current", "today", "now", "2024", "2025"})
    \/ HasPhrase(message, "this", "week") \/ HasPhrase(message, "this", "month")
    \/ HasWord(message, {"price", "stock", "weather", "news", "score", "result"})
    \/ \E i \in 1..(Len(message) - 1) :
          /\ \/ (message[i] \in {"what", "who", "where"} /\ message[i + 1] = "is")
             \/ (message[i] = "when" /\ message[i + 1] = "did")
          /\ \E j \in (i + 2)..Len(message) :
                message[j] \in {"now", "today", "currently", "latest"}

\* the keyword lists of the two endpoints differ in "today"
WeatherKeywords(endpoint) ==
    IF endpoint = "stream"
    THEN {"weather", "temperature", "forecast", "climate", "local", "here", "today"}
    ELSE {"weather", "temperature", "forecast", "climate", "local", "here"}

\* `keyword in message.lower()` is a substring test: the words that hold kw
Containing(kw) == {kw} \cup (IF kw = "here" THEN {"where", "there"} ELSE {})

HasWeatherKeyword(endpoint, message) ==
    \E kw \in WeatherKeywords(endpoint) : HasWord(message, Containing(kw))

\* is_location_query of chat_stream
IsLocationQuery(message) ==
    \E kw \in {"weather", "temperature", "forecast", "climate"} :
        HasWord(message, Containing(kw))

\* user_location from the user row: "City, State", "City" or None
UserLocation(u) ==
    IF u.location_city = "" THEN NoLocation
    ELSE [city |-> u.location_city, state |-> u.location_state,
          spaced |-> u.location_city = "Los Angeles"]

\* ------------------------------------------------ categorising the memories
RECURSIVE ProfileFacts(_, _)
\* the loop over semantic_results: the non-empty contents
ProfileFacts(semantic_results, i) ==
    IF i > Len(semantic_results) THEN <<>>
    ELSE (IF semantic_results[i].profile_content # <<>>
          THEN <<semantic_results[i].profile_content>> ELSE <<>>)
         \o ProfileFacts(semantic_results, i + 1)

\* a mutant: every retrieved record taken for one of the active thread
IsCurrentThread_Always(mem_thread_id, thread_id) == TRUE

\* mem_thread_id == thread.id, thread.id being the int primary key
IsCurrentThread(mem_thread_id, thread_id) == PyEq(mem_thread_id, PyInt(thread_id))

RECURSIVE SplitEpisodes(_, _, _, _, _)
\* the loop over episodic_results from i on; raised: metadata.get on a null
\* metadata ended the handler with an unhandled exception
SplitEpisodes(episodic_results, thread_id, i, cur, oth) ==
    IF i > Len(episodic_results)
    THEN [current |-> cur, other |-> oth, raised |-> FALSE]
    ELSE LET m == episodic_results[i] IN
         IF m.md = "null" THEN [current |-> cur, other |-> oth, raised |-> TRUE]
         ELSE IF m.episode_content = <<>>
         THEN SplitEpisodes(episodic_results, thread_id, i + 1, cur, oth)
         ELSE IF IsCurrentThread(MetaGet(m.meta, "thread_id"), thread_id)
         THEN SplitEpisodes(episodic_results, thread_id, i + 1,
                            Append(cur, m.episode_content), oth)
         ELSE SplitEpisodes(episodic_results, thread_id, i + 1,
                            cur, Append(oth, m.episode_content))

\* ------------------------------------------------------------ Prompt composer
\* The system prompt is the concatenation of its parts.  A part is kept as
\* its section, whether its text starts with the blank-line separator, and
\* the items it lists.
Part(sec, sep, items) == [sec |-> sec, sep |-> sep, items |-> items]

\* a mutant: the slice of the profile facts forgotten
ProfileSlice_All(profile_facts) == profile_facts

ProfileSlice(profile_facts) == Take(profile_facts, ProfileCap)
\* a mutant: the documents header written whether or not a file came
DocumentsPart_Always(uploaded_texts) == <<Part("documents", TRUE, uploaded_texts)>>

\* if uploaded_texts: the documents part
DocumentsPart(uploaded_texts) ==
    IF uploaded_texts # <<>> THEN <<Part("documents", TRUE, uploaded_texts)>> ELSE <<>>

\* in.endpoint: "stream" (chat_stream) or "plain" (chat_endpoint)
ComposePrompt(in) ==
    <<Part("base", FALSE, <<IF in.system_prompt # <<>> THEN in.system_prompt
                            ELSE <<"base_instructions">>>>),
      Part("datetime", TRUE, <<>>)>>
    \o (IF in.user_location # NoLocation
        THEN <<Part("location", TRUE, <<>>)>> ELSE <<>>)
    \o (IF in.profile_facts # <<>>
        THEN <<Part("profile", TRUE, ProfileSlice(in.profile_facts))>> ELSE <<>>)
    \o (IF in.current_thread_memories # <<>>
        THEN <<Part("current", TRUE, Take(in.current_thread_memories, CurrentCap))>> ELSE <<>>)
    \o (IF in.other_thread_memories # <<>>
        THEN <<Part("other", TRUE, Take(in.other_thread_memories, OtherCap))>> ELSE <<>>)
    \o DocumentsPart(in.uploaded_texts)
    \o (IF in.web_search_results # <<>>
        THEN <<Part("web", TRUE, in.web_search_results)>>
             \o (IF in.endpoint = "stream" /\ IsLocationQuery(in.message)
                     /\ in.user_location # NoLocation
                 THEN <<Part("web_note", TRUE, <<>>)>> ELSE <<>>)
        ELSE <<>>)

MatchesAt(text, i, phrase) ==
    /\ i + Len(phrase) - 1 <= Len(text)
    /\ \A k \in 1..Len(phrase) : text[i + k - 1] = phrase[k]

RECURSIVE RunEnd(_, _)
\* the index after the run of letter words that starts at i
RunEnd(text, i) ==
    IF i > Len(text) \/ text[i] \in {".", "!", "?", "2024", "2025"} THEN i
    ELSE RunEnd(text, i + 1)

\* len(value) > 2 and len(value) < 100 on the characters of the capture; a
\* capture of two words or more has at least three characters, and no text
\* of the model reaches 100
ReasonableLength(value) ==
    \/ Len(value) > 1
    \/ Len(value) = 1
           /\ value[1] \notin {"a", "i", "in", "is", "as", "at", "up", "tx", "la"}

user_patterns ==
    << [phrases |->
            << <<"i", "live", "in">>, <<"i'm", "in">>, <<"i'm", "from">>,
            <<"i", "am", "from">>, <<"i", "am", "in">>, <<"located", "in">>, <<"based", "in">> >>,
        one |-> FALSE, fact |-> <<"user", "lives", "in">>],
       [phrases |->
            << <<"my", "location", "is">>, <<"my", "city", "is">> >>,
        one |-> FALSE, fact |-> <<"user", "lives", "in">>],
       [phrases |->
            << <<"my", "name", "is">>, <<"i'm">>, <<"i", "am">>, <<"call", "me">> >>,
        one |-> TRUE, fact |-> <<"user's", "name", "is">>],
       [phrases |->
            << <<"i", "work", "as">>, <<"i'm", "a">>, <<"i", "am", "a">>,
            <<"i", "work", "at">>, <<"my", "job", "is">> >>,
        one |-> FALSE, fact |-> <<"user", "works", "as">>],
       [phrases |->
            << <<"i", "like">>, <<"i", "love">>, <<"i", "enjoy">>,
            <<"i", "prefer">>, <<"my", "favorite">> >>,
        one |-> FALSE, fact |-> <<"user", "likes">>],
       [phrases |->
            << <<"i", "don't", "like">>, <<"i", "hate">>, <<"i", "dislike">> >>,
        one |-> FALSE, fact |-> <<"user", "doesn't", "like">>] >>

response_patterns ==
    << [phrases |-> << <<"you", "live", "in">>, <<"you're", "in">>, <<"you're", "from">>,
                       <<"you", "are", "from">>, <<"you", "are", "in">> >>, one |-> FALSE],
       [phrases |-> << <<"your", "name", "is">> >>, one |-> TRUE],
       [phrases |-> << <<"you", "work", "as">>, <<"you're", "a">> >>, one |-> FALSE] >>

\* the first alternative of the pattern that matches at word i with a
\* non-empty capture: the index after the match, or 0
MatchEnd(text, i, pat) ==
    LET ok(k) == /\ MatchesAt(text, i, pat.phrases[k])
                 /\ RunEnd(text, i + Len(pat.phrases[k])) > i + Len(pat.phrases[k])
        ks == {k \in 1..Len(pat.phrases) : ok(k)}
    IN IF ks = {} THEN 0
       ELSE LET k == CHOOSE x \in ks : \A y \in ks : x <= y
                from == i + Len(pat.phrases[k])
            IN IF pat.one THEN from + 1 ELSE RunEnd(text, from)

\* the capture of the match of pat at i
MatchValue(text, i, pat) ==
    LET ks == {k \in 1..Len(pat.phrases) : MatchesAt(text, i, pat.phrases[k])
                  /\ RunEnd(text, i + Len(pat.phrases[k])) > i + Len(pat.phrases[k])}
        k == CHOOSE x \in ks : \A y \in ks : x <= y
    IN SubSeq(text, i + Len(pat.phrases[k]), MatchEnd(text, i, pat) - 1)

RECURSIVE FindIter(_, _, _)
\* re.finditer: the start indices of the non-overlapping matches from i on
FindIter(text, i, pat) ==
    IF i > Len(text) THEN <<>>
    ELSE IF MatchEnd(text, i, pat) # 0
    THEN <<i>> \o FindIter(text, MatchEnd(text, i, pat), pat)
    ELSE FindIter(text, i + 1, pat)

RECURSIVE FactsOf(_, _, _, _)
\* the facts of the matches starts[j..] of one user pattern
FactsOf(text, pat, starts, j) ==
    IF j > Len(starts) THEN <<>>
    ELSE LET value == MatchValue(text, starts[j], pat) IN
         (IF ReasonableLength(value) THEN <<pat.fact \o value>> ELSE <<>>)
         \o FactsOf(text, pat, starts, j + 1)

RECURSIVE ConfirmedOf(_, _, _, _)
\* the facts of the matches of one response pattern: the whole match
ConfirmedOf(text, pat, starts, j) ==
    IF j > Len(starts) THEN <<>>
    ELSE <<(<<"confirmed">> \o SubSeq(text, starts[j], MatchEnd(text, starts[j], pat) - 1))>>
         \o ConfirmedOf(text, pat, starts, j + 1)

RECURSIVE UserFacts(_, _)
UserFacts(message, p) ==
    IF p > Len(user_patterns) THEN <<>>
    ELSE FactsOf(message, user_patterns[p], FindIter(message, 1, user_patterns[p]), 1)
         \o UserFacts(message, p + 1)

RECURSIVE ResponseFacts(_, _)
ResponseFacts(response, p) ==
    IF p > Len(response_patterns) THEN <<>>
    ELSE ConfirmedOf(response, response_patterns[p],
                     FindIter(response, 1, response_patterns[p]), 1)
         \o ResponseFacts(response, p + 1)

extract_profile_facts(message, response) ==
    UserFacts(message, 1) \o (IF response # <<>> THEN ResponseFacts(response, 1) ELSE <<>>)

\* ------------------------------------------------------- access and provider
\* _ensure_access: TRUE when no HTTPException(403) is raised
_ensure_access(thread, user_id, memberRows) ==
    IF thread.project_id # NoProject
    THEN <<thread.project_id, user_id>> \in memberRows
    ELSE thread.owner_user_id = user_id

\* the marker substrings of a model name, lower-cased
Markers(model) ==
    CASE model = "gpt-4o" -> {"gpt"}
      [] model = "gpt-4o-mini" -> {"gpt"}
      [] model = "o1-mini" -> {"o1"}
      [] model = "claude-3-opus" -> {"claude"}
      [] model = "gemini-1.5-pro" -> {"gemini"}
      [] model = "claude-gpt-mix" -> {"claude", "gpt"}
      [] OTHER -> {}

DetectProvider(model) ==
    IF "claude" \in Markers(model) THEN "anthropic"
    ELSE IF "gemini" \in Markers(model) THEN "google"
    ELSE "openai"

NoKey == [t |-> "none", v |-> "", for |-> "none", owner |-> 0]
KeyOf(u, p) == [t |-> "str", v |-> "key", for |-> p, owner |-> u]
EmptyKey(u, p) == [t |-> "str", v |-> "", for |-> p, owner |-> u]

\* a mutant: the fallback keeps the requested model and provider name
ResolveProvider_KeepProvider(model, keys) ==
    LET provider == DetectProvider(model)
        user_api_key == keys[provider]
    IN IF ~Truthy(user_api_key) /\ provider # "openai"
       THEN [provider |-> provider, model |-> model, api_key |-> keys["openai"]]
       ELSE [provider |-> provider, model |-> model, api_key |-> user_api_key]

\* the provider, model and key the turn goes on with; the key is falsy when
\* the turn ends with the 400 error
ResolveProvider(model, keys) ==
    LET provider == DetectProvider(model)
        user_api_key == keys[provider]
    IN IF ~Truthy(user_api_key) /\ provider # "openai"
       THEN [provider |-> "openai", model |-> "gpt-4o-mini", api_key |-> keys["openai"]]
       ELSE [provider |-> provider, model |-> model, api_key |-> user_api_key]

\* ---------------------------------------------------------------- the state
VARIABLES
    cfg,        \* the deployment and the requests it receives (never changes)
    users,      \* User rows: the provider keys and the location
    threads,    \* Thread rows
    members,    \* ProjectMember rows, as <<project_id, user_id>>
    messages,   \* committed Message rows, in commit order
    mm,         \* the memory service: scopes, episodic and semantic records
    turn,       \* per request slot: the handler's locals and its position
    nturns,     \* turns received so far
    call        \* a call made on the library alone: its arguments and result

vars == <<cfg, users, threads, members, messages, mm, turn, nturns, call>>

NoThread == [exists |-> FALSE, owner_user_id |-> 0, project_id |-> NoProject,
             active_model |-> "", active_provider |-> "", last_message_at |-> 0]

\* no exception caught yet
NoError == [kind |-> "none", text |-> "", has |-> {}]

IdleTurn ==
    [pc |-> "idle", id |-> 0, endpoint |-> "", user |-> 0, thread_id |-> 0,
     model |-> "", requested_model |-> "", message |-> <<>>,
     system_prompt |-> <<>>, file |-> FALSE,
     provider |-> "", api_key |-> NoKey, fellback |-> FALSE,
     user_location |-> NoLocation, uploaded_texts |-> <<>>,
     searched |-> FALSE, search_failed |-> FALSE, search_query |-> <<>>,
     filter_location |-> NoLocation, web_search_results |-> <<>>,
     profile_facts |-> <<>>, current_thread_memories |-> <<>>,
     other_thread_memories |-> <<>>, episodes |-> <<>>,
     prompt |-> <<>>, conversation_messages |-> <<>>, pending |-> <<>>,
     dispatched |-> <<>>, reply |-> <<>>, events |-> <<>>,
     status |-> 0, detail |-> "", mem_calls |-> 0, mem_failed |-> 0,
     fault |-> "none", error_detail |-> NoError, failed_writes |-> {},
     response |-> FailedResponse]

\* the Message row of a turn
\* a mutant: every row filed under the first thread
MessageRow_FirstThread(t, sender, content) ==
    [thread_id |-> 1, sender |-> sender, content |-> content,
     model_used |-> t.model, provider_used |-> t.provider, turn |-> t.id,
     created_at |-> t.id]

\* created_at is the server's now() at the insert: the rows of one turn may
\* carry the same value, rows of a later turn never carry an earlier one
MessageRow(t, sender, content) ==
    [thread_id |-> t.thread_id, sender |-> sender, content |-> content,
     model_used |-> t.model, provider_used |-> t.provider, turn |-> t.id,
     created_at |-> t.id]

\* a mutant: the history read after the user row of the turn was flushed
ThreadHistory_AfterFlush(t) ==
    SelectSeq(messages \o <<MessageRow(t, "user", t.message)>>,
              LAMBDA m : m.thread_id = t.thread_id)

\* db.query(Message).filter_by(thread_id=...): what the session of the turn
\* sees, the committed rows and then its own flushed rows
ThreadHistory(t) ==
    SelectSeq(messages \o t.pending, LAMBDA m : m.thread_id = t.thread_id)

\* .order_by(Message.created_at.asc()).all(): the rows in an order of
\* ascending created_at; rows with equal created_at come in either order
OrderedByCreatedAt(rows) ==
    {[i \in 1..Len(rows) |-> rows[f[i]]] :
        f \in {g \in [1..Len(rows) -> 1..Len(rows)] :
                 /\ \A i, j \in 1..Len(rows) : i # j => g[i] # g[j]
                 /\ \A i, j \in 1..Len(rows) :
                        i < j => rows[g[i]].created_at <= rows[g[j]].created_at}}

RECURSIVE ConversationMessages(_, _, _)
ConversationMessages(hist, i, endpoint) ==
    IF i > Len(hist) THEN <<>>
    ELSE <<[role |-> IF hist[i].sender = "user" THEN "user" ELSE "assistant",
            content |-> IF hist[i].sender = "user" /\ hist[i].content = <<>>
                        THEN (IF endpoint = "stream" THEN <<"[file uploaded]">>
                              ELSE <<"[file]">>)
                        ELSE hist[i].content]>>
         \o ConversationMessages(hist, i + 1, endpoint)

\* whether every outbound call of one add_memory / add_semantic_memory failed
CallAllFailed(o) == o.get # "ok" /\ ~o.create /\ ~o.write

\* the response of the service to a search in scope: the stored records the
\* service picks, each returned with the metadata it was stored with
RECURSIVE StoredEntries(_, _, _, _)
StoredEntries(records, scope, keep, i) ==
    IF i > Len(records) THEN <<>>
    ELSE (IF i \in keep /\ records[i].scope = scope
          THEN <<Entry(records[i].content, "dict", records[i].metadata)>> ELSE <<>>)
         \o StoredEntries(records, scope, keep, i + 1)

StoredResponse(scope, keepE, keepS) ==
    [ok |-> TRUE,
     ltm |-> ListColl(StoredEntries(mm.episodic, scope, keepE, 1)),
     stm |-> EmptyColl,
     sem |-> ListColl(StoredEntries(mm.semantic, scope, keepS, 1))]

InScope(records, scope) == {i \in 1..Len(records) : records[i].scope = scope}

\* ------------------------------------------------------------------ actions
\* A request arrives at one of the two endpoints.
Receive(s) ==
    /\ turn[s].pc \in {"idle", "done", "error"}
    /\ nturns < cfg.max_turns
    /\ \E endpoint \in cfg.endpoints, user \in cfg.actors, thread_id \in cfg.targets,
          model \in cfg.models, message \in cfg.messages,
          system_prompt \in cfg.system_prompts, file \in cfg.files :
          turn' = [turn EXCEPT ![s] =
                      [IdleTurn EXCEPT !.pc = "received", !.id = nturns + 1,
                                       !.endpoint = endpoint, !.user = user,
                                       !.thread_id = thread_id, !.model = model,
                                       !.requested_model = model,
                                       !.message = message,
                                       !.system_prompt = system_prompt,
                                       !.file = file]]
    /\ nturns' = nturns + 1
    /\ UNCHANGED <<call, cfg, users, threads, members, messages, mm>>

\* the handler ends with an HTTPException before anything was written
Abort(t, status, detail) ==
    [t EXCEPT !.pc = "error", !.status = status, !.detail = detail, !.pending = <<>>,
              !.fault = IF status = 500 THEN "unhandled" ELSE "refused"]

\* a mutant: the user's message written to the memory service before the
\* thread is loaded and the access checked
CheckAccess_AfterWrite(s) ==
    LET t == turn[s] IN
    /\ t.pc = "received"
    /\ turn' = [turn EXCEPT ![s] =
          IF ~threads[t.thread_id].exists
          THEN Abort([t EXCEPT !.mem_calls = 1], 404, "Thread not found")
          ELSE IF ~_ensure_access(threads[t.thread_id], t.user, members)
          THEN Abort([t EXCEPT !.mem_calls = 1], 403, "No access")
          ELSE [t EXCEPT !.pc = "access_checked"]]
    /\ mm' = add_memory(mm, t.user, t.message, t.thread_id, NoProject, "user",
                        <<>>, AllOk)
    /\ UNCHANGED <<call, cfg, users, threads, members, messages, nturns>>

\* Load the thread and check access: 404, 403 or go on.
CheckAccess(s) ==
    LET t == turn[s] IN
    /\ t.pc = "received"
    /\ turn' = [turn EXCEPT ![s] =
          IF ~threads[t.thread_id].exists THEN Abort(t, 404, "Thread not found")
          ELSE IF ~_ensure_access(threads[t.thread_id], t.user, members)
          THEN Abort(t, 403, "No access")
          ELSE [t EXCEPT !.pc = "access_checked"]]
    /\ UNCHANGED <<call, cfg, users, threads, members, messages, mm, nturns>>

\* Provider detection, key lookup and fallback: 400 or go on.
SelectProvider(s) ==
    LET t == turn[s]
        r == ResolveProvider(t.model, users[t.user].keys)
    IN
    /\ t.pc = "access_checked"
    /\ turn' = [turn EXCEPT ![s] =
          IF ~Truthy(r.api_key)
          THEN [Abort(t, 400, "No API key configured") EXCEPT
                    !.provider = r.provider, !.model = r.model]
          ELSE [t EXCEPT !.pc = "provider_selected", !.provider = r.provider,
                         !.model = r.model, !.api_key = r.api_key,
                         !.fellback = (r.provider # DetectProvider(t.model))]]
    /\ UNCHANGED <<call, cfg, users, threads, members, messages, mm, nturns>>

\* the tavily key: the user's, else the deployment's
TavilyKey(u) == IF Truthy(users[u].keys["tavily"]) THEN users[u].keys["tavily"]
                ELSE cfg.tavily_api_key

FileText == <<"file", "text">>

FileMeta(endpoint, thread_id) ==
    IF endpoint = "stream"
    THEN [type |-> PyText("file_upload"), filename |-> PyText("notes.txt"),
          size |-> PyInt(2), thread_id |-> PyInt(thread_id)]
    ELSE [type |-> PyText("file_upload"), filename |-> PyText("notes.txt")]

\* File ingestion, user location, web search, cross-thread memory search and
\* the split of the memories.  Inputs: whether the file could be read, the
\* outcomes of the calls to the memory service, the answer of the search
\* service and the response of the memory service.
GatherContext(s) ==
    LET t == turn[s]
        thread == threads[t.thread_id]
        loc == UserLocation(users[t.user])
        scope == _get_org_and_project(t.user, thread.project_id)
        searches == Truthy(TavilyKey(t.user)) /\ should_search_web(t.message)
        weather == HasWeatherKeyword(t.endpoint, t.message)
        filt == IF weather THEN loc ELSE NoLocation
    IN
    /\ t.pc = "provider_selected"
    /\ \E fileOk \in (IF t.file THEN BOOLEAN ELSE {TRUE}),
          o \in (IF t.file THEN cfg.outcomes ELSE {AllOk}),
          wok \in (IF searches THEN BOOLEAN ELSE {TRUE}),
          wres \in (IF searches THEN cfg.web_results ELSE {ErrorResult}),
          resp \in {FailedResponse} \cup cfg.responses
                   \cup {StoredResponse(scope, kE, kS) :
                           kE \in SUBSET InScope(mm.episodic, scope),
                           kS \in SUBSET InScope(mm.semantic, scope)} :
          LET stored == t.file /\ fileOk
              mm1 == IF stored
                     THEN add_semantic_memory(mm, t.user, <<"file">> \o FileText,
                              thread.project_id, FileMeta(t.endpoint, t.thread_id), o)
                     ELSE mm
              uploaded == IF ~t.file THEN <<>>
                          ELSE IF fileOk THEN <<FileText>>
                          ELSE IF t.endpoint = "stream" THEN <<(<<"error", "reading", "file">>)>>
                          ELSE <<>>
              web == IF searches
                     THEN format_results_for_llm(TavilySearch(wok, wres), filt)
                     ELSE <<>>
              found == search_memories(resp, 0, TRUE, TRUE)
              split == SplitEpisodes(found.episodic_results, t.thread_id, 1, <<>>, <<>>)
              t1 == [t EXCEPT !.user_location = loc,
                              !.response = resp,
                              !.uploaded_texts = uploaded,
                              !.searched = searches,
                              !.search_failed = searches /\ ~wok,
                              !.search_query =
                                  IF searches /\ loc # NoLocation /\ weather
                                  THEN t.message \o <<"in", loc.city>>
                                       \o (IF loc.state # "" THEN <<loc.state>> ELSE <<>>)
                                  ELSE
                                  IF searches THEN t.message ELSE <<>>,
                              !.filter_location = IF searches THEN filt ELSE NoLocation,
                              !.web_search_results = web,
                              !.episodes = found.episodic_results,
                              !.profile_facts = ProfileFacts(found.semantic_results, 1),
                              !.current_thread_memories = split.current,
                              !.other_thread_memories = split.other,
                              !.failed_writes =
                                  IF stored /\ WriteResult(o) # "true"
                                  THEN @ \cup {"file"} ELSE @,
                              !.mem_calls = @ + 1 + (IF stored THEN 1 ELSE 0),
                              !.mem_failed = @ + (IF resp.ok THEN 0 ELSE 1)
                                  + (IF stored /\ CallAllFailed(o) THEN 1 ELSE 0)]
          IN /\ turn' = [turn EXCEPT ![s] =
                   IF split.raised THEN Abort(t1, 500, "Internal Server Error")
                   ELSE [t1 EXCEPT !.pc = "context_gathered"]]
             /\ mm' = mm1
    /\ UNCHANGED <<call, cfg, users, threads, members, messages, nturns>>

\* The system prompt is put together.
Compose(s) ==
    LET t == turn[s] IN
    /\ t.pc = "context_gathered"
    /\ turn' = [turn EXCEPT ![s] =
          [t EXCEPT !.pc = "prompt_composed", !.prompt = ComposePrompt(t)]]
    /\ UNCHANGED <<call, cfg, users, threads, members, messages, mm, nturns>>

UserMeta(t) ==
    IF t.endpoint = "stream"
    THEN [sender |-> PyText("user"), model |-> PyText(t.model),
          provider |-> PyText(t.provider)]
    ELSE [provider |-> PyText(t.provider)]

AssistantMeta(t) ==
    IF t.endpoint = "stream"
    THEN [sender |-> PyText("assistant"), model |-> PyText(t.model),
          provider |-> PyText(t.provider)]
    ELSE [provider |-> PyText(t.provider)]

\* The history is loaded, the user's Message row is added and flushed inside
\* the session's open transaction, and the user turn is written to memory.
\* whether an exception of a memory write would leave the handler's own
\* try blocks: chat_stream wraps every write in a try of its own; chat_endpoint
\* wraps only the file's write, the user turn's write is outside any try and
\* the step-5 writes are inside the try whose except answers 500
Escapes(endpoint, write, result) ==
    result = "raise" /\ endpoint = "plain" /\ write # "file"

PersistUserMessage(s) ==
    LET t == turn[s]
        thread == threads[t.thread_id]
    IN
    /\ t.pc = "prompt_composed"
    /\ \E o \in cfg.outcomes, hist \in OrderedByCreatedAt(ThreadHistory(t)) :
          LET t1 == [t EXCEPT !.failed_writes =
                                  IF WriteResult(o) # "true" THEN @ \cup {"user"} ELSE @,
                              !.mem_calls = @ + 1,
                              !.mem_failed = @ + (IF CallAllFailed(o) THEN 1 ELSE 0)]
          IN
          /\ turn' = [turn EXCEPT ![s] =
                IF Escapes(t.endpoint, "user", WriteResult(o))
                THEN [Abort(t1, 500, "Internal Server Error") EXCEPT
                          !.fault = "memory_write"]
                ELSE
                [t1 EXCEPT !.pc = "completion_in_flight",
                          !.conversation_messages =
                              ConversationMessages(hist, 1, t.endpoint)
                              \o <<[role |-> "user", content |-> t.message]>>,
                          !.pending = <<MessageRow(t, "user", t.message)>>]]
          /\ mm' = add_memory(mm, t.user, t.message, t.thread_id, thread.project_id,
                              "user", UserMeta(t), o)
    /\ UNCHANGED <<call, cfg, users, threads, members, messages, nturns>>

FactMeta(endpoint, thread_id) ==
    IF endpoint = "stream"
    THEN [type |-> PyText("user_fact"), extracted_from |-> PyText("conversation"),
          thread_id |-> PyInt(thread_id)]
    ELSE [type |-> PyText("user_fact"), thread_id |-> PyInt(thread_id)]

RECURSIVE StoreFacts(_, _, _, _, _)
\* the loop that stores the extracted facts, one add_semantic_memory each
StoreFacts(m, t, project_id, facts, o) ==
    IF facts = <<>> THEN m
    ELSE StoreFacts(add_semantic_memory(m, t.user, Head(facts), project_id,
                                        FactMeta(t.endpoint, t.thread_id), o),
                    t, project_id, Tail(facts), o)

\* str(e) of the exception the completion call raises, lower-cased: its text and
\* the fragments it contains that the handler's substring tests look for
ProviderError(kind) ==
    CASE kind = "invalid_api_key" ->
             [kind |-> kind, text |-> "incorrect api key provided",
              has |-> {"invalid_api_key", "incorrect api key"}]
      [] kind = "quota" ->
             [kind |-> kind, text |-> "you exceeded your current quota",
              has |-> {"insufficient_quota", "quota"}]
      [] kind = "rate_limit" ->
             [kind |-> kind, text |-> "rate limit reached for requests",
              has |-> {"rate_limit"}]
      [] kind = "model_not_found" ->
             [kind |-> kind, text |-> "the model was not found",
              has |-> {"model", "not found"}]
      [] OTHER ->
             [kind |-> "other", text |-> "connection error", has |-> {}]

\* error_msg of the streaming handler: the first substring test that matches
ErrorMessage(error_detail, provider, model) ==
    IF "invalid_api_key" \in error_detail.has \/ "incorrect api key" \in error_detail.has
    THEN "Invalid " \o provider \o " API key. Please update your API key in settings."
    ELSE IF "insufficient_quota" \in error_detail.has \/ "quota" \in error_detail.has
    THEN "API key has insufficient quota. Please check your " \o provider \o " account."
    ELSE IF "rate_limit" \in error_detail.has
    THEN "Rate limit exceeded for " \o provider \o ". Please wait a moment and try again."
    ELSE IF "model" \in error_detail.has /\ "not found" \in error_detail.has
    THEN "Model '" \o model \o "' not available."
    ELSE "Error: " \o error_detail.text

\* db.rollback() drops the rows flushed in the session's transaction
Rollback_Keep(pending) == pending

Rollback(pending) == <<>>

\* the SSE events / the HTTP answer of a failure caught by the handler: the
\* stream yields an error event with error_msg and the marker; chat_endpoint
\* raises HTTPException(500) whose detail is str(e)
Failed(t, kind) ==
    LET e == ProviderError(kind) IN
    IF t.endpoint = "stream"
    THEN [t EXCEPT !.pc = "error", !.pending = Rollback(t.pending),
                   !.error_detail = e,
                   !.detail = ErrorMessage(e, t.provider, t.model), !.status = 200,
                   !.events = @ \o <<"error", "[DONE]">>]
    ELSE [t EXCEPT !.pc = "error", !.pending = Rollback(t.pending),
                   !.error_detail = e,
                   !.detail = e.text, !.status = 500]

\* The completion provider is called with the composed prompt and the
\* conversation; it answers with a reply or fails.  The chunk loop of the
\* stream yields each chunk as it arrives, so a failure may follow content
\* events already yielded (streamed).
Complete(s) ==
    LET t == turn[s]
        request == [provider |-> t.provider, model |-> t.model, api_key |-> t.api_key,
                    system |-> t.prompt, messages |-> t.conversation_messages]
    IN
    /\ t.pc = "completion_in_flight"
    /\ \E outcome \in {"ok"} \cup cfg.failures, reply \in cfg.replies,
          streamed \in (IF t.endpoint = "stream" THEN {0, 1} ELSE {0}) :
          turn' = [turn EXCEPT ![s] =
              IF outcome = "ok"
              THEN [t EXCEPT !.pc = "completed", !.dispatched = <<request>>,
                             !.reply = reply,
                             !.events = IF t.endpoint = "stream"
                                        THEN <<"content", "[DONE]">> ELSE <<>>]
              ELSE Failed([t EXCEPT !.dispatched = <<request>>, !.fault = "completion",
                                    !.events = [i \in 1..streamed |-> "content"]],
                          outcome)]
    /\ UNCHANGED <<call, cfg, users, threads, members, messages, mm, nturns>>

\* Step 5: the assistant row, the memory writes, the extracted facts, the
\* thread update and the commit; a failing commit is rolled back.
Persist(s) ==
    LET t == turn[s]
        thread == threads[t.thread_id]
        facts == extract_profile_facts(t.message, t.reply)
    IN
    /\ t.pc = "completed"
    /\ \E o \in cfg.outcomes,
          fo \in (IF facts = <<>> THEN {AllOk} ELSE cfg.outcomes),
          dbok \in cfg.db_outcomes :
          LET mm1 == add_memory(mm, t.user, t.reply, t.thread_id, thread.project_id,
                                "assistant", AssistantMeta(t), o)
              mm2 == StoreFacts(mm1, t, thread.project_id, facts, fo)
              added == t.pending \o <<MessageRow(t, "assistant", t.reply)>>
              escaped == \/ Escapes(t.endpoint, "assistant", WriteResult(o))
                         \/ facts # <<>> /\ Escapes(t.endpoint, "fact", WriteResult(fo))
              t1 == [t EXCEPT !.failed_writes = @
                                  \cup (IF WriteResult(o) # "true"
                                        THEN {"assistant"} ELSE {})
                                  \cup (IF facts # <<>> /\ WriteResult(fo) # "true"
                                        THEN {"fact"} ELSE {}),
                              !.mem_calls = @ + 1 + Len(facts),
                              !.mem_failed = @ + (IF CallAllFailed(o) THEN 1 ELSE 0)
                                  + (IF CallAllFailed(fo) THEN Len(facts) ELSE 0)]
          IN /\ mm' = mm2
             /\ IF escaped
                THEN /\ turn' = [turn EXCEPT ![s] =
                            Failed([t1 EXCEPT !.fault = "memory_write",
                                              !.pending = added], "other")]
                     /\ UNCHANGED <<messages, threads>>
                ELSE
                IF dbok
                THEN /\ messages' = messages \o added
                     /\ threads' = [threads EXCEPT ![t.thread_id] =
                            [@ EXCEPT !.active_model = t.model,
                                      !.active_provider = t.provider,
                                      !.last_message_at = t.id]]
                     /\ turn' = [turn EXCEPT ![s] =
                            [t1 EXCEPT !.pc = "done", !.pending = <<>>, !.status = 200]]
                ELSE /\ turn' = [turn EXCEPT ![s] =
                            Failed([t1 EXCEPT !.fault = "commit",
                                              !.pending = added], "other")]
                     /\ UNCHANGED <<messages, threads>>
    /\ UNCHANGED <<call, cfg, users, members, nturns>>

Next ==
    \/ \E s \in cfg.slots : Receive(s)
    \/ \E s \in cfg.slots : CheckAccess(s)
    \/ \E s \in cfg.slots : SelectProvider(s)
    \/ \E s \in cfg.slots : GatherContext(s)
    \/ \E s \in cfg.slots : Compose(s)
    \/ \E s \in cfg.slots : PersistUserMessage(s)
    \/ \E s \in cfg.slots : Complete(s)
    \/ \E s \in cfg.slots : Persist(s)

\* ------------------------------------------------------------ initial states
Keys(u, held) ==
    [p \in Providers \cup {"tavily"} |-> IF p \in held THEN KeyOf(u, p) ELSE NoKey]

UserRow(u, held, city, state) ==
    [keys |-> Keys(u, held), location_city |-> city, location_state |-> state]

PersonalThread(owner) ==
    [NoThread EXCEPT !.exists = TRUE, !.owner_user_id = owner,
                     !.active_model = "gpt-4o-mini", !.active_provider = "openai"]

ProjectThread(owner, project) ==
    [PersonalThread(owner) EXCEPT !.project_id = project]

\* user 1 holds an OpenAI and a Tavily key and lives in Austin, TX; user 2
\* holds an Anthropic key only.  Threads 1 and 2 are personal threads of user
\* 1, thread 3 is a thread of project 1 owned by user 2, thread 4 does not
\* exist.  Both users are members of project 1.
InitUsers == [u \in Users |-> IF u = 1 THEN UserRow(1, {"openai", "tavily"}, "Austin", "TX")
                              ELSE UserRow(u, {"anthropic"}, "", "")]

InitThreads == [i \in ThreadIds |-> CASE i \in {1, 2} -> PersonalThread(1)
                                      [] i = 3 -> ProjectThread(2, 1)
                                      [] OTHER -> NoThread]

MsgHello == <<"hello">>
MsgWeather == <<"what", "is", "the", "weather", "today">>
MsgFacts == <<"i", "live", "in", "seattle", "and", "i", "work", "as", "a", "teacher">>

Austin == [city |-> "Austin", state |-> "", spaced |-> FALSE]
AustinTX == [city |-> "Austin", state |-> "TX", spaced |-> FALSE]

WebHit == [error |-> FALSE,
           answer |-> [present |-> TRUE,
                       mentions |-> {Needle("lower", AustinTX), Needle("firstword", AustinTX)}],
           results |-> <<[id |-> 1, mentions |-> {Needle("lower", AustinTX),
                                                  Needle("firstword", AustinTX)}],
                         [id |-> 2, mentions |-> {}]>>]
WebNothing == [error |-> FALSE, answer |-> [present |-> FALSE, mentions |-> {}],
               results |-> <<>>]

\* Several turns of user 1 on the personal threads, one after the other, with
\* the memory service and the store up: what one turn writes, a later turn
\* finds.
BaseCfg ==
    [slots |-> {1},
     max_turns |-> MaxTurns,
     endpoints |-> {"stream", "plain"},
     actors |-> {1},
     targets |-> {1, 2},
     models |-> {"gpt-4o"},
     messages |-> {MsgHello, MsgWeather},
     system_prompts |-> {<<>>},
     files |-> {FALSE},
     outcomes |-> {AllOk},
     web_results |-> {WebHit},
     responses |-> {},
     replies |-> {<<"ok">>},
     failures |-> {"quota"},
     db_outcomes |-> {TRUE},
     tavily_api_key |-> NoKey]

ThreadMeta(v) == [thread_id |-> v]

\* an error status whose body holds records all the same
ErrorWithBody ==
    [ok |-> FALSE,
     ltm |-> ListColl(<<Entry(<<"old">>, "dict", ThreadMeta(PyText("1"))),
                        Entry(<<"else">>, "dict", ThreadMeta(PyText("2")))>>),
     stm |-> EmptyColl,
     sem |-> ListColl(<<Entry(<<"fact">>, "dict", EmptyMeta)>>)]

\* a 200 answer some of whose entries have an unexpected shape: an episode
\* that is not a dict, one without content, one whose metadata is null, a
\* short-term collection of the wrong type and a semantic item without value
MalformedResponse ==
    [ok |-> TRUE,
     ltm |-> ListColl(<<Entry(<<"old">>, "dict", ThreadMeta(PyText("1"))),
                        [Entry(<<"x">>, "dict", EmptyMeta) EXCEPT !.isdict = FALSE],
                        [Entry(<<"y">>, "dict", EmptyMeta) EXCEPT !.has = FALSE],
                        Entry(<<"z">>, "null", EmptyMeta)>>),
     stm |-> [kind |-> "absent", items |-> <<>>],
     sem |-> ListColl(<<Entry(<<"fact">>, "dict", EmptyMeta),
                        [Entry(<<"w">>, "dict", EmptyMeta) EXCEPT !.has = FALSE]>>)]

NoCall == [op |-> "none", done |-> FALSE]

InitWith(c, userRows, memberRows) ==
    /\ call = NoCall
    /\ cfg = c
    /\ users = userRows
    /\ threads = InitThreads
    /\ members = memberRows
    /\ messages = <<>>
    /\ mm = [projects |-> {}, episodic |-> <<>>, semantic |-> <<>>]
    /\ turn = [s \in Slots |-> IdleTurn]
    /\ nturns = 0

InitMembers == {<<1, 1>>, <<1, 2>>}

Init == InitWith(BaseCfg, InitUsers, InitMembers)

Spec == Init /\ [][Next]_vars

InitTurn == InitWith(
    [BaseCfg EXCEPT !.max_turns = 1,
                    !.actors = Users,
                    !.targets = {1, 3},
                    !.models = {"gpt-4o", "claude-3-opus"},
                    !.messages = {MsgWeather, MsgFacts, <<"news", "today">>},
                    !.files = BOOLEAN,
                    !.outcomes = {AllOk, AllFail},
                    !.web_results = {WebHit, WebNothing},
                    !.responses =
                        {ErrorWithBody, MalformedResponse,
                         [MalformedResponse EXCEPT
                              !.ltm = ListColl(Take(MalformedResponse.ltm.items, 3))]},
                    !.failures = {"invalid_api_key", "quota", "rate_limit",
                                  "model_not_found", "other"},
                    !.db_outcomes = BOOLEAN],
    InitUsers, InitMembers)

SpecTurn == InitTurn /\ [][Next]_vars

\* two requests in flight at once, each with its own session
InitPair == InitWith(
    [BaseCfg EXCEPT !.slots = Slots,
                    !.messages = {MsgHello},
                    !.db_outcomes = BOOLEAN],
    InitUsers, InitMembers)

SpecPair == InitPair /\ [][Next]_vars

InitAccess == \E m \in SUBSET (Projects \X Users) : InitWith(
    [BaseCfg EXCEPT !.max_turns = 1,
                    !.actors = Users,
                    !.targets = ThreadIds,
                    !.models = {"gpt-4o", "claude-3-opus"},
                    !.messages = {MsgHello}],
    InitUsers, m)

SpecAccess == InitAccess /\ [][Next]_vars

\* what get_user_api_keys returns for user u: per provider a key, an empty
\* string or None
KeysFrom(u, k) ==
    [p \in Providers \cup {"tavily"} |->
        IF p = "tavily" THEN NoKey
        ELSE CASE k[p] = "key" -> KeyOf(u, p)
               [] k[p] = "empty" -> EmptyKey(u, p)
               [] OTHER -> NoKey]

InitKeys ==
    \E k \in [Providers -> {"none", "empty", "key"}] :
        InitWith(
            [BaseCfg EXCEPT !.max_turns = 1,
                            !.targets = {1},
                            !.models = {"gpt-4o", "o1-mini", "claude-3-opus",
                                         "gemini-1.5-pro", "llama-3", "claude-gpt-mix"},
                            !.messages = {MsgHello}],
            [InitUsers EXCEPT ![1].keys = KeysFrom(1, k)], InitMembers)

SpecKeys == InitKeys /\ [][Next]_vars

\* ------------------------------------------------ long answers of the search
Min(a, b) == IF a < b THEN a ELSE b

\* nCur episodes of thread 1 and nOth of thread 2, taking turns.  Those of
\* thread 1 carry the thread id as a JSON number, the form the handlers take
\* for the current thread's.
LongEpisodes(nCur, nOth) ==
    [i \in 1..(nCur + nOth) |->
        LET cur == IF i <= 2 * Min(nCur, nOth) THEN i % 2 = 1 ELSE nCur > nOth
        IN Entry(<<(IF cur THEN "here" ELSE "elsewhere"), ToString(i)>>, "dict",
                 ThreadMeta(IF cur THEN PyInt(1) ELSE PyText("2")))]

LongFacts(nSem) == [i \in 1..nSem |-> Entry(<<"fact", ToString(i)>>, "dict", EmptyMeta)]

LongResponse(nSem, nCur, nOth) ==
    [ok |-> TRUE,
     ltm |-> ListColl(LongEpisodes(nCur, nOth)),
     stm |-> EmptyColl,
     sem |-> ListColl(LongFacts(nSem))]

LongResponses ==
    {LongResponse(nSem, nCur, nOth) : nSem \in {0, ProfileCap, MaxLongList},
                                      nCur \in {0, CurrentCap + 1},
                                      nOth \in {0, OtherCap, OtherCap + 1}}

InitPrompt == InitWith(
    [BaseCfg EXCEPT !.max_turns = 1,
                    !.actors = Users,
                    !.targets = {1, 3},
                    !.models = {"claude-3-opus"},
                    !.system_prompts = {<<>>, <<"custom">>},
                    !.files = BOOLEAN,
                    !.web_results = {WebHit, WebNothing},
                    !.responses = LongResponses,
                    !.tavily_api_key = KeyOf(0, "tavily")],
    InitUsers, InitMembers)

SpecPrompt == InitPrompt /\ [][Next]_vars

\* ------------------------------------------------ calls on the library alone
ScopeArgs == [user_id : 1..MaxId, project_id : NoProject..MaxId]

\* _get_org_and_project called twice
ScopeCalls == {[op |-> "scope", done |-> FALSE, a |-> a, b |-> b, result |-> <<>>] :
                  a \in ScopeArgs, b \in ScopeArgs}

\* the entries of a search response: well-formed ones of thread 1 and 2 (the
\* id as text or as a number), ones without a thread id, with null or
\* without metadata, and one without the content key
EpisodeEntries ==
    {Entry(<<"a">>, "dict", ThreadMeta(PyText("1"))),
     Entry(<<"b">>, "dict", ThreadMeta(PyText("2"))),
     Entry(<<"c">>, "dict", ThreadMeta(PyInt(1))),
     Entry(<<"d">>, "dict", EmptyMeta),
     Entry(<<"e">>, "null", EmptyMeta),
     Entry(<<"f">>, "absent", EmptyMeta),
     [Entry(<<"g">>, "dict", ThreadMeta(PyText("1"))) EXCEPT !.has = FALSE]}

SemanticEntries ==
    {Entry(<<"p">>, "dict", ThreadMeta(PyText("1"))),
     Entry(<<"q">>, "dict", ThreadMeta(PyText("2"))),
     Entry(<<"r">>, "dict", EmptyMeta)}

SeqsUpTo(S, n) == UNION {[1..k -> S] : k \in 0..n}

SearchResponses ==
    [ok : BOOLEAN,
     ltm : {ListColl(es) : es \in SeqsUpTo(EpisodeEntries, MaxEpisodes)},
     stm : {EmptyColl, ListColl(<<Entry(<<"s">>, "dict", ThreadMeta(PyText("1")))>>),
            [kind |-> "null", items |-> <<>>], [kind |-> "absent", items |-> <<>>]},
     sem : {ListColl(es) : es \in SeqsUpTo(SemanticEntries, 1)}
           \cup {[kind |-> "absent", items |-> <<>>]}]

\* search_memories called on a response, with a thread filter (1, 2) or
\* without (0)
SearchCalls == {[op |-> "search", done |-> FALSE, resp |-> r, thread_id |-> T,
                 project_id |-> p, request |-> <<>>,
                 result |-> NoResults] :
                    r \in SearchResponses, T \in 0..2, p \in {NoProject, 1}}

CallScope ==
    /\ call.op = "scope" /\ ~call.done
    /\ call' = [call EXCEPT !.done = TRUE,
                            !.result = <<_get_org_and_project(call.a.user_id, call.a.project_id),
                                         _get_org_and_project(call.b.user_id, call.b.project_id)>>]
    /\ UNCHANGED <<cfg, users, threads, members, messages, mm, turn, nturns>>

CallSearch ==
    /\ call.op = "search" /\ ~call.done
    /\ call' = [call EXCEPT !.done = TRUE,
                            !.request = SearchPayload(1, MsgWeather, call.thread_id,
                                                      call.project_id, 50,
                                                      <<"semantic", "episodic">>),
                            !.result = search_memories(call.resp, call.thread_id, TRUE, TRUE)]
    /\ UNCHANGED <<cfg, users, threads, members, messages, mm, turn, nturns>>

EmptyService == [projects |-> {}, episodic |-> <<>>, semantic |-> <<>>]

\* ensure_project_exists called twice on a service that holds the scope or
\* not, each call with its own outcome of the service, and a write of fn
\* under the outcome of the first call
EnsureCalls ==
    {[op |-> "ensure", done |-> FALSE, fn |-> fn, user_id |-> u, project_id |-> P,
      projects |-> IF e THEN {_get_org_and_project(u, P)} ELSE {},
      o |-> o, o2 |-> o2, result |-> <<>>] :
        fn \in {"add_memory", "add_semantic_memory"}, u \in 1..2,
        P \in {NoProject, 1}, e \in BOOLEAN,
        o \in [get : {"ok", "err", "exc"}, create : BOOLEAN, write : BOOLEAN],
        o2 \in [get : {"ok", "err", "exc"}, create : BOOLEAN, write : {TRUE}]}

CallEnsure ==
    /\ call.op = "ensure" /\ ~call.done
    /\ LET first == ensure_project_exists(call.projects, call.user_id,
                                          call.project_id, call.o)
           service == [EmptyService EXCEPT !.projects = call.projects]
       IN call' = [call EXCEPT
             !.done = TRUE,
             !.result =
                 [first |-> first,
                  second |-> ensure_project_exists(first.projects, call.user_id,
                                                   call.project_id, call.o2),
                  written |->
                      IF call.fn = "add_memory"
                      THEN add_memory(service, call.user_id, <<"text">>, 1,
                                      call.project_id, "user", <<>>, call.o).episodic
                      ELSE add_semantic_memory(service, call.user_id, <<"text">>,
                                      call.project_id, <<>>, call.o).semantic]]
    /\ UNCHANGED <<cfg, users, threads, members, messages, mm, turn, nturns>>

NextCalls == CallScope \/ CallSearch \/ CallEnsure

CallerMetas ==
    UNION {[K -> {PyText("x"), PyInt(7), PyBool(TRUE), PyFloat("0.5"), PyNone}] :
             K \in SUBSET {"thread_id", "role", "score"}}

WriteCalls ==
    {[op |-> "write", done |-> FALSE, fn |-> fn, user_id |-> u, thread_id |-> T,
      project_id |-> P, role |-> r, metadata |-> md, result |-> <<>>] :
        fn \in {"add_memory", "add_semantic_memory"}, u \in 1..2, T \in 1..2,
        P \in {NoProject, 1}, r \in {"user", "assistant"}, md \in CallerMetas}

\* the call is made on an empty, reachable service; the result is the list of
\* messages the service received
CallWrite ==
    /\ call.op = "write" /\ ~call.done
    /\ call' = [call EXCEPT
          !.done = TRUE,
          !.result =
              IF call.fn = "add_memory"
              THEN add_memory(EmptyService, call.user_id, <<"text">>, call.thread_id,
                              call.project_id, call.role, call.metadata, AllOk).episodic
              ELSE add_semantic_memory(EmptyService, call.user_id, <<"text">>,
                              call.project_id, call.metadata, AllOk).semantic]
    /\ UNCHANGED <<cfg, users, threads, members, messages, mm, turn, nturns>>

FormSets(loc) ==
    IF loc = NoLocation THEN {{}}
    ELSE {F \in SUBSET ({"lower", "nospace", "firstword", "la"}) :
            /\ "la" \in F => IsLosAngeles(loc)
            /\ "firstword" \in F => HasSpace(loc)
            /\ HasSpace(loc) => (F \cap {"lower", "nospace"} # {} => "firstword" \in F)
            /\ ~HasSpace(loc) => ("lower" \in F <=> "nospace" \in F)}

Mentions(loc) == {{Needle(f, loc) : f \in F} : F \in FormSets(loc)}

WebResults(loc, max_results) ==
    UNION {[1..k -> Mentions(loc)] : k \in 0..max_results}

Numbered(ms) == [i \in 1..Len(ms) |-> [id |-> i, mentions |-> ms[i]]]

FormatCalls(max_results) ==
    UNION {{[op |-> "format", done |-> FALSE, filter_location |-> loc,
             search_result |-> [error |-> e,
                                answer |-> [present |-> ap,
                                            mentions |-> IF ap THEN am ELSE {}],
                                results |-> Numbered(ms)],
             result |-> <<>>] :
               e \in BOOLEAN, ap \in BOOLEAN, am \in Mentions(loc),
               ms \in WebResults(loc, max_results)} :
           loc \in {NoLocation, Austin, AustinTX,
                    [city |-> "Los Angeles", state |-> "", spaced |-> TRUE]}}

CallFormat ==
    /\ call.op = "format" /\ ~call.done
    /\ call' = [call EXCEPT
          !.done = TRUE,
          !.result = format_results_for_llm(call.search_result, call.filter_location)]
    /\ UNCHANGED <<cfg, users, threads, members, messages, mm, turn, nturns>>

ExtractCalls ==
    {[op |-> "extract", done |-> FALSE, message |-> m, response |-> r, result |-> <<>>] :
        m \in {MsgFacts, MsgHello, MsgWeather,
               <<"i", "live", "in", "seattle", ".", "i", "work", "as", "a", "teacher">>},
        r \in {<<>>, <<"ok">>, (<<"so", "you", "live", "in", "seattle", ".">>)}}

CallExtract ==
    /\ call.op = "extract" /\ ~call.done
    /\ call' = [call EXCEPT
          !.done = TRUE,
          !.result = extract_profile_facts(call.message, call.response)]
    /\ UNCHANGED <<cfg, users, threads, members, messages, mm, turn, nturns>>

NextPure == CallWrite \/ CallFormat \/ CallExtract

InitCalls ==
    /\ call \in ScopeCalls \cup SearchCalls \cup EnsureCalls
    /\ cfg = BaseCfg
    /\ users = InitUsers
    /\ threads = InitThreads
    /\ members = InitMembers
    /\ messages = <<>>
    /\ mm = [projects |-> {}, episodic |-> <<>>, semantic |-> <<>>]
    /\ turn = [s \in Slots |-> IdleTurn]
    /\ nturns = 0

SpecCalls == InitCalls /\ [][NextCalls]_vars

InitPure ==
    /\ call \in WriteCalls \cup FormatCalls(MaxResults) \cup ExtractCalls
    /\ cfg = BaseCfg
    /\ users = InitUsers
    /\ threads = InitThreads
    /\ members = InitMembers
    /\ messages = <<>>
    /\ mm = EmptyService
    /\ turn = [s \in Slots |-> IdleTurn]
    /\ nturns = 0

SpecPure == InitPure /\ [][NextPure]_vars

\* ------------------------------------------------------------ thread routes
\* list_threads: the ids of the threads the query returns for the user
list_threads(user_id) ==
    LET project_ids == {p \in Projects : <<p, user_id>> \in members} IN
    {i \in ThreadIds : /\ threads[i].exists
                       /\ \/ threads[i].owner_user_id = user_id
                          \/ threads[i].project_id \in project_ids}

\* get_thread: the status of the answer
get_thread(thread_id, user_id) ==
    IF ~threads[thread_id].exists THEN 404
    ELSE IF threads[thread_id].project_id # NoProject
    THEN IF <<threads[thread_id].project_id, user_id>> \in members THEN 200 ELSE 403
    ELSE IF threads[thread_id].owner_user_id # user_id THEN 403
    ELSE 200

\* create_thread: a project thread only for a member of the project; the new
\* row takes a free id
create_thread(user_id, project_id) ==
    /\ \E i \in ThreadIds : ~threads[i].exists
    /\ LET id == CHOOSE i \in ThreadIds :
                    /\ ~threads[i].exists
                    /\ \A j \in ThreadIds : ~threads[j].exists => i <= j
           allowed == project_id = NoProject \/ <<project_id, user_id>> \in members
       IN /\ threads' = IF allowed
                        THEN [threads EXCEPT ![id] = ProjectThread(user_id, project_id)]
                        ELSE threads
          /\ call' = [op |-> "create_thread", status |-> IF allowed THEN 200 ELSE 403]
    /\ UNCHANGED <<cfg, users, members, messages, mm, turn, nturns>>

\* delete_thread: only the owner deletes; the messages go with the thread
delete_thread(thread_id, user_id) ==
    LET status == IF ~threads[thread_id].exists THEN 404
                  ELSE IF threads[thread_id].owner_user_id # user_id THEN 403
                  ELSE 200
    IN /\ threads' = IF status = 200 THEN [threads EXCEPT ![thread_id] = NoThread]
                     ELSE threads
       /\ messages' = IF status = 200
                      THEN SelectSeq(messages, LAMBDA m : m.thread_id # thread_id)
                      ELSE messages
       /\ call' = [op |-> "delete_thread", status |-> status]
       /\ UNCHANGED <<cfg, users, members, mm, turn, nturns>>

\* a ProjectMember row is added or removed
ChangeMembership(project_id, user_id) ==
    /\ members' = IF <<project_id, user_id>> \in members
                  THEN members \ {<<project_id, user_id>>}
                  ELSE members \cup {<<project_id, user_id>>}
    /\ call' = [op |-> "membership", status |-> 200]
    /\ UNCHANGED <<cfg, users, threads, messages, mm, turn, nturns>>

NextThreads ==
    \/ \E u \in Users, p \in {NoProject} \cup Projects : create_thread(u, p)
    \/ \E u \in Users, i \in ThreadIds : delete_thread(i, u)
    \/ \E u \in Users, p \in Projects : ChangeMembership(p, u)

SpecThreads == Init /\ [][NextThreads]_vars

\* ------------------------------------------------------------- user routes
\* a mutant: closing the session writes out what the handler assigned
SessionClose_Flushes(stored, assigned) == assigned

\* get_db's finally: db.close() ends the session without a commit, the row
\* keeps what was stored
SessionClose(stored, assigned) == stored

\* save_api_keys.  A supplied key is well-formed ("valid": its validator
\* accepts it), malformed ("invalid") or not supplied ("absent": None or an
\* empty string).  Each accepted key is assigned on the session's user
\* object; with an error collected the handler raises 400 before the commit.
save_api_keys(u, supplied) ==
    LET stored == users[u].keys
        assigned == [p \in DOMAIN stored |->
                        IF supplied[p] = "valid"
                        THEN [KeyOf(u, p) EXCEPT !.v = "key2"] ELSE stored[p]]
        errors == {p \in DOMAIN stored : supplied[p] = "invalid"}
    IN /\ users' = [users EXCEPT ![u].keys =
                        IF errors # {} THEN SessionClose(stored, assigned)
                        ELSE assigned]
       /\ call' = [op |-> "save_api_keys", user |-> u, supplied |-> supplied,
                   status |-> IF errors # {} THEN 400 ELSE 200]
       /\ UNCHANGED <<cfg, threads, members, messages, mm, turn, nturns>>

SpecUserKeys ==
    Init /\ [][\E u \in cfg.actors,
                  supplied \in [Providers \cup {"tavily"} ->
                                   {"absent", "valid", "invalid"}] :
                  save_api_keys(u, supplied)]_vars

\* ------------------------------------------------------------------ claims
Contents(items) == [i \in 1..Len(items) |-> items[i].episode_content]

Sections(prompt) == [i \in 1..Len(prompt) |-> prompt[i].sec]

HasSection(prompt, sec) == \E i \in 1..Len(prompt) : prompt[i].sec = sec

\* the positions of a turn after its memories were split
Gathered == {"context_gathered", "prompt_composed", "completion_in_flight",
             "completed", "done"}

\* the positions of a turn after its prompt was composed
Composed == {"prompt_composed", "completion_in_flight", "completed", "done"}

\* thread-id metadata and active thread id equal as string-normalized values
SameThread(e, thread_id) ==
    PyEq(Str(MetaGet(e.meta, "thread_id")), Str(PyInt(thread_id)))

CommittedRow(t, sender) ==
    \E i \in 1..Len(messages) : messages[i].turn = t.id /\ messages[i].sender = sender

\* C1: in both endpoints the retrieved episodic records are split by the
\* string-normalized thread id: the records of the active thread make the
\* current-thread list, all the others the other-thread list.
C1_SplitByThread ==
    \A s \in Slots :
        LET t == turn[s]
            filled == SelectSeq(t.episodes, LAMBDA e : e.episode_content # <<>>)
        IN t.pc \in Gathered =>
            /\ t.current_thread_memories =
                   Contents(SelectSeq(filled, LAMBDA e : SameThread(e, t.thread_id)))
            /\ t.other_thread_memories =
                   Contents(SelectSeq(filled, LAMBDA e : ~SameThread(e, t.thread_id)))

\* C2: after a turn whose completion (or a later step) failed, the user's
\* Message row of that turn is in the relational store.
C2_UserMessageDurable ==
    \A s \in Slots :
        LET t == turn[s] IN
        (t.pc = "error" /\ t.fault \in {"completion", "commit"}) => CommittedRow(t, "user")

\* the turn went through the access check of an existing thread
AccessDecided(t) ==
    /\ t.pc \notin {"idle", "received"}
    /\ threads[t.thread_id].exists

\* C3: a turn passes the access check if and only if the user owns the
\* thread or is a member of the thread's project; otherwise it ends with 403.
C3_AccessIffOwnerOrMember ==
    \A s \in Slots :
        LET t == turn[s]
            thread == threads[t.thread_id]
            allowed == \/ thread.owner_user_id = t.user
                       \/ /\ thread.project_id # NoProject
                          /\ <<thread.project_id, t.user>> \in members
        IN AccessDecided(t) =>
             IF allowed THEN t.status # 403
             ELSE t.pc = "error" /\ t.status = 403

\* C4: a turn in which every call to the memory service failed is not ended
\* by that: its prompt holds no profile, current-thread or other-thread
\* section, it ends only through a failure of the completion or of the
\* commit, and when it is done the completion was dispatched, the reply is
\* returned and the user and assistant rows are committed.
C4_MemoryOutageFailsOpen ==
    \A s \in Slots :
        LET t == turn[s] IN
        (t.mem_calls > 0 /\ t.mem_failed = t.mem_calls) =>
            /\ t.pc \in Composed =>
                   /\ ~HasSection(t.prompt, "profile")
                   /\ ~HasSection(t.prompt, "current")
                   /\ ~HasSection(t.prompt, "other")
            /\ t.pc = "error" => t.fault \in {"completion", "commit"}
            /\ t.pc = "done" =>
                   /\ Len(t.dispatched) = 1
                   /\ t.status = 200
                   /\ CommittedRow(t, "user") /\ CommittedRow(t, "assistant")

\* a turn that went through search, both episodic writes and a fact write
\* with the memory service down all along, and is done
C4_Witness ==
    \E s \in Slots :
        /\ turn[s].pc = "done"
        /\ turn[s].mem_calls >= 4
        /\ turn[s].mem_failed = turn[s].mem_calls

\* C5: when the web-search call of a turn fails, the composed prompt holds
\* no web-search section.
C5_SearchOutageNoSection ==
    \A s \in Slots :
        LET t == turn[s] IN
        (t.pc \in Composed /\ t.search_failed) => ~HasSection(t.prompt, "web")

\* C6: with no project two calls of _get_org_and_project return the same pair
\* exactly when the user ids are equal; with the same project the pair is the
\* same whoever the acting user is.
C6_ScopeInjectiveAndShared ==
    (call.op = "scope" /\ call.done) =>
        LET a == call.a
            b == call.b
        IN /\ (a.project_id = 0 /\ b.project_id = 0) =>
                  ((call.result[1] = call.result[2]) <=> (a.user_id = b.user_id))
           /\ (a.project_id # 0 /\ a.project_id = b.project_id) =>
                  call.result[1] = call.result[2]

\* two different users resolved the scope of the same project
C6_Witness ==
    /\ call.op = "scope" /\ call.done
    /\ call.a.project_id # 0 /\ call.a.project_id = call.b.project_id
    /\ call.a.user_id # call.b.user_id
    /\ call.result[1] = call.result[2]

\* the part of the prompt for section sec lists the first cap items of list,
\* in order, and is missing exactly when the list is empty
ListsFirst(prompt, sec, list, cap) ==
    LET ps == SelectSeq(prompt, LAMBDA x : x.sec = sec) IN
    IF list = <<>> THEN ps = <<>>
    ELSE /\ Len(ps) = 1
         /\ Len(ps[1].items) <= cap
         /\ Len(ps[1].items) = Min(Len(list), cap)
         /\ \A i \in 1..Len(ps[1].items) : ps[1].items[i] = list[i]

\* C7: whatever the search returned, the composed prompt lists at most 30
\* profile facts, 20 current-thread memories and 15 other-thread memories,
\* and those listed are the first ones in retrieval order.
C7_SectionCaps ==
    \A s \in Slots :
        LET t == turn[s] IN
        t.pc \in Composed =>
            /\ ListsFirst(t.prompt, "profile", t.profile_facts, 30)
            /\ ListsFirst(t.prompt, "current", t.current_thread_memories, 20)
            /\ ListsFirst(t.prompt, "other", t.other_thread_memories, 15)

\* a prompt composed from more than 30 facts, more than 20 current-thread
\* and more than 15 other-thread memories
C7_Witness ==
    \E s \in Slots :
        /\ turn[s].pc \in Composed
        /\ Len(turn[s].profile_facts) > 30
        /\ Len(turn[s].current_thread_memories) > 20
        /\ Len(turn[s].other_thread_memories) > 15

SectionOrder == <<"base", "datetime", "location", "profile", "current", "other",
                  "documents", "web", "web_note">>

Rank(sec) == CHOOSE i \in 1..Len(SectionOrder) : SectionOrder[i] = sec

\* C8: the parts of the composed prompt come in the fixed order base,
\* date/time, location, profile, current thread, other threads, documents,
\* web search (in chat_stream its closing note right after it); base and
\* date/time are always there, every other section is there exactly when its
\* input is not empty, and every part but the first starts with its own
\* separator, so an omitted section leaves nothing behind.
C8_SectionOrder ==
    \A s \in Slots :
        LET t == turn[s]
            p == t.prompt
        IN t.pc \in Composed =>
            /\ \A i, j \in 1..Len(p) : i < j => Rank(p[i].sec) < Rank(p[j].sec)
            /\ p[1].sec = "base" /\ ~p[1].sep
            /\ p[2].sec = "datetime"
            /\ \A i \in 2..Len(p) : p[i].sep
            /\ HasSection(p, "location") <=> (t.user_location # NoLocation)
            /\ HasSection(p, "profile") <=> (t.profile_facts # <<>>)
            /\ HasSection(p, "current") <=> (t.current_thread_memories # <<>>)
            /\ HasSection(p, "other") <=> (t.other_thread_memories # <<>>)
            /\ HasSection(p, "documents") <=> (t.uploaded_texts # <<>>)
            /\ HasSection(p, "web") <=> (t.web_search_results # <<>>)
            /\ \A i \in 1..Len(p) : p[i].sec = "web_note" => p[i - 1].sec = "web"

\* a prompt with some sections present and others omitted in between
C8_Witness ==
    \E s \in Slots :
        /\ turn[s].pc \in Composed
        /\ Sections(turn[s].prompt) = <<"base", "datetime", "profile", "other", "web">>

\* the well-formed entries of a list of a response, in order
WellFormed(coll) ==
    IF coll.kind = "list" THEN SelectSeq(coll.items, LAMBDA e : e.isdict /\ e.has)
    ELSE <<>>

\* C9: with a thread filter T search_memories returns only records whose
\* thread-id metadata equals T; without a filter it returns the records of
\* all threads that the response of the service holds.
C9_ThreadFilter ==
    (call.op = "search" /\ call.done) =>
        LET r == call.result
            T == call.thread_id
            resp == call.resp
            eps == WellFormed(resp.ltm) \o WellFormed(resp.stm)
            sems == WellFormed(resp.sem)
        IN /\ T # 0 =>
                  /\ \A i \in 1..Len(r.episodic_results) :
                         SameThread(r.episodic_results[i], T)
                  /\ \A i \in 1..Len(r.semantic_results) :
                         SameThread(r.semantic_results[i], T)
           /\ (T = 0 /\ resp.ok /\ resp.ltm.kind # "null" /\ resp.stm.kind # "null") =>
                  /\ Contents(r.episodic_results) = [i \in 1..Len(eps) |-> eps[i].content]
                  /\ [i \in 1..Len(r.semantic_results) |-> r.semantic_results[i].profile_content]
                         = [i \in 1..Len(sems) |-> sems[i].content]

\* the turn went through the provider selection
ProviderDecided(t) ==
    \/ t.pc \in {"provider_selected", "context_gathered"} \cup Composed
    \/ t.pc = "error" /\ t.status \notin {403, 404}

\* C10: when the user holds no key for the provider of the model the turn
\* goes on with openai and gpt-4o-mini; it ends with the 400 error only when
\* the user holds neither a key for that provider nor an OpenAI key; and a
\* completion is only ever dispatched with a non-empty key of the provider it
\* is sent to.
C10_ProviderFallback ==
    \A s \in Slots :
        LET t == turn[s]
            keys == users[t.user].keys
            detected == DetectProvider(t.requested_model)
        IN ProviderDecided(t) =>
            /\ (detected # "openai" /\ ~Truthy(keys[detected])) =>
                   /\ t.provider = "openai" /\ t.model = "gpt-4o-mini"
                   /\ Truthy(keys["openai"]) => t.status # 400
            /\ t.status = 400 => (~Truthy(keys[detected]) /\ ~Truthy(keys["openai"]))
            /\ \A i \in 1..Len(t.dispatched) :
                   LET c == t.dispatched[i] IN
                   /\ Truthy(c.api_key)
                   /\ c.api_key.for = c.provider

\* a turn for a Claude model of a user without an Anthropic key, done on
\* openai / gpt-4o-mini with the user's OpenAI key
C10_Witness ==
    \E s \in Slots :
        LET t == turn[s] IN
        /\ t.pc = "done"
        /\ DetectProvider(t.requested_model) = "anthropic"
        /\ ~Truthy(users[t.user].keys["anthropic"])
        /\ Len(t.dispatched) = 1
        /\ t.dispatched[1].provider = "openai"
        /\ t.dispatched[1].model = "gpt-4o-mini"

\* ---------------------------------------------------------------------------
\* C11. Every event stream produced by chat_stream, whether the turn succeeds
\* or fails inside the generator, ends with the end-of-stream marker [DONE]:
\* the marker occurs exactly once in the stream and is its last event.
StreamEnded(t) ==
    /\ t.endpoint = "stream"
    /\ t.pc \in {"done", "error"}
    /\ t.fault \in {"none", "completion", "commit"}
    /\ t.dispatched # <<>>

DoneCount(events) == Cardinality({i \in 1..Len(events) : events[i] = "[DONE]"})

C11_StreamEndsWithOneDone ==
    \A s \in Slots :
        LET t == turn[s] IN
        StreamEnded(t) =>
            /\ t.events # <<>>
            /\ t.events[Len(t.events)] = "[DONE]"
            /\ DoneCount(t.events) = 1

\* ---------------------------------------------------------------------------
\* C12. In both chat endpoints a completion failure of each subtype (invalid
\* credential, quota exceeded, rate limited, model unavailable, other) is
\* surfaced to the caller with the user-facing message of that subtype, no two
\* subtypes sharing a message, and the failure ends only the current turn: the
\* slot's turn is terminal and nothing of it is committed.
FailureKinds == {"invalid_api_key", "quota", "rate_limit", "model_not_found", "other"}

UserFacing(kind, provider, model) == ErrorMessage(ProviderError(kind), provider, model)

C12_FailureMessagePerSubtype ==
    \A s \in Slots :
        LET t == turn[s] IN
        (t.pc = "error" /\ t.fault = "completion") =>
            /\ t.error_detail.kind \in FailureKinds
            /\ t.detail = UserFacing(t.error_detail.kind, t.provider, t.model)
            /\ \A k \in FailureKinds \ {t.error_detail.kind} :
                   t.detail # UserFacing(k, t.provider, t.model)
            /\ t.pending = <<>>

\* ---------------------------------------------------------------------------
\* C13. A failure of an episodic or semantic write at any point of a turn
\* (the uploaded file, the user turn, the assistant turn, an extracted fact)
\* is swallowed: the turn is never ended by it, and a turn that is done after
\* failed writes returned its reply with the assistant message committed.
C13_WriteFailureSwallowed ==
    \A s \in Slots :
        LET t == turn[s] IN
        /\ t.fault # "memory_write"
        /\ t.failed_writes # {} =>
               /\ t.pc = "error" => t.fault \in {"unhandled", "completion", "commit"}
               /\ t.pc = "done" =>
                      /\ t.status = 200
                      /\ t.reply # <<>>
                      /\ CommittedRow(t, "assistant")

\* a done chat_endpoint turn in which the file's, the user turn's, the
\* assistant turn's and the fact's write all failed
C13_Witness ==
    \E s \in Slots :
        /\ turn[s].pc = "done"
        /\ turn[s].endpoint = "plain"
        /\ turn[s].failed_writes = {"file", "user", "assistant", "fact"}
        /\ CommittedRow(turn[s], "assistant")

\* ---------------------------------------------------------------------------
\* C14. When the search response holds entries of unexpected shape (not a
\* dict, no content, null metadata, a collection of the wrong type), the
\* malformation never ends the turn as an error, the offending entries are
\* skipped, and the well-formed entries are still returned and used: their
\* contents are the memories and profile facts of the turn.
WellShaped(coll) ==
    IF coll.kind = "list"
    THEN SelectSeq(coll.items, LAMBDA e : e.isdict /\ e.has /\ e.md # "null")
    ELSE <<>>

HasMalformed(resp) ==
    \E coll \in {resp.ltm, resp.stm, resp.sem} :
        coll.kind # "list" \/ Len(WellShaped(coll)) < Len(coll.items)

EntryContents(es) == [i \in 1..Len(es) |-> es[i].content]

C14_MalformedEntriesSkipped ==
    \A s \in Slots :
        LET t == turn[s]
            resp == t.response
        IN (resp.ok /\ HasMalformed(resp)) =>
            /\ t.fault # "unhandled"
            /\ t.pc \in Gathered =>
                   /\ Contents(t.episodes) =
                          EntryContents(WellShaped(resp.ltm) \o WellShaped(resp.stm))
                   /\ t.profile_facts = EntryContents(WellShaped(resp.sem))

\* ---------------------------------------------------------------------------
\* C15. Whenever no turn is in flight, after any sequence of turns including
\* failed completions, every episodic record held by the memory service
\* carries a thread id for which a persisted Message row of that thread
\* exists.
Quiescent == \A s \in Slots : turn[s].pc \in {"idle", "done", "error"}

C15_EpisodicRecordHasMessage ==
    Quiescent =>
        \A i \in 1..Len(mm.episodic) :
            \E j \in 1..Len(messages) :
                /\ messages[j].thread_id = mm.episodic[i].produced_for
                /\ Str(PyInt(messages[j].thread_id))
                       = MetaGet(mm.episodic[i].metadata, "thread_id")

\* ---------------------------------------------------------------------------
\* C16. After a completed turn in one personal thread of a user, a later turn
\* of the same user in a different personal thread searches the memory scope
\* the first turn wrote to, and an episodic record of the first thread that
\* the search returns is an other-thread memory of the later turn, listed in
\* the other-thread section of its prompt (the list being within its cap).
PersonalOf(u) ==
    {T \in ThreadIds : /\ threads[T].exists
                       /\ threads[T].owner_user_id = u
                       /\ threads[T].project_id = NoProject}

\* the stored episodic records of thread T, a thread with committed messages
EarlierRecordsOf(T) ==
    {i \in 1..Len(mm.episodic) :
        /\ mm.episodic[i].produced_for = T
        /\ \E j \in 1..Len(messages) : messages[j].thread_id = T}

OtherItems(prompt) ==
    UNION {{prompt[i].items[k] : k \in 1..Len(prompt[i].items)} :
             i \in {j \in 1..Len(prompt) : prompt[j].sec = "other"}}

IsString(x) == x.t = "str"

C17_MetadataAllStrings ==
    (call.op = "write" /\ call.done) =>
        \A i \in 1..Len(call.result) :
            LET sent == call.result[i]
                meta == sent.metadata
            IN /\ \A k \in DOMAIN meta : IsString(meta[k])
               /\ meta["user_id"] = PyText(ToString(call.user_id))
               /\ "role" \in DOMAIN meta => meta["role"] = PyText(sent.role)
               /\ call.fn = "add_memory" =>
                      meta["thread_id"] = PyText(ToString(call.thread_id))

\* ---------------------------------------------------------------------------
\* C18. format_results_for_llm with a location filter includes exactly the
\* results whose title plus excerpt mention the location (the location itself,
\* its whitespace-stripped variant or its first-word variant), and emits the
\* no-location-specific-results marker when and only when no result matches.
ClaimedVariations(loc) ==
    {Needle(f, loc) : f \in {"lower", "nospace", "firstword"}}

PartsOf(result, part) == {i \in 1..Len(result) : result[i].part = part}

C18_LocationFilter ==
    (/\ call.op = "format" /\ call.done
     /\ ~call.search_result.error
     /\ call.filter_location # NoLocation) =>
        LET results == call.search_result.results
            matching == {i \in 1..Len(results) :
                           results[i].mentions
                               \cap ClaimedVariations(call.filter_location) # {}}
            kept == {call.result[i].id : i \in PartsOf(call.result, "item")}
        IN /\ kept = {results[i].id : i \in matching}
           /\ PartsOf(call.result, "marker") # {} <=> matching = {}

\* ---------------------------------------------------------------------------
\* C19. extract_profile_facts on "I live in Seattle and I work as a teacher"
\* yields "User lives in Seattle" and "User works as a teacher", each fact
\* holding only its own value; on a message and a reply that match no pattern
\* it yields the empty list.
Mentioned(text, pats) ==
    \E p \in 1..Len(pats) : \E k \in 1..Len(pats[p].phrases) : \E i \in 1..Len(text) :
        MatchesAt(text, i, pats[p].phrases[k])

FactSet(result) == {result[i] : i \in 1..Len(result)}

C19_FactsOfTwoClauses ==
    (call.op = "extract" /\ call.done) =>
        /\ (call.message = MsgFacts /\ ~Mentioned(call.response, response_patterns)) =>
               FactSet(call.result) = {<<"user", "lives", "in", "seattle">>,
                                       <<"user", "works", "as", "a", "teacher">>}
        /\ (/\ ~Mentioned(call.message, user_patterns)
            /\ ~Mentioned(call.response, response_patterns)) => call.result = <<>>

\* ---------------------------------------------------------------------------
\* C20. A turn signals completion to the caller (the returned reply, or the
\* end-of-stream marker after the reply's content) only after the assistant
\* message, the thread update and the memory writes of step 5 were carried
\* out and committed: a turn that has signalled completion has its assistant
\* row committed and its thread updated, and is not failed afterwards.
SignalledCompletion(t) ==
    \/ t.endpoint = "plain" /\ t.status = 200
    \/ /\ t.endpoint = "stream"
       /\ \E i \in 1..Len(t.events) :
              /\ t.events[i] = "[DONE]"
              /\ \A k \in 1..(i - 1) : t.events[k] = "content"
              /\ i > 1

C20_DoneAfterPersistence ==
    \A s \in Slots :
        LET t == turn[s] IN
        SignalledCompletion(t) =>
            /\ t.pc = "done"
            /\ CommittedRow(t, "assistant")
            /\ threads[t.thread_id].last_message_at = t.id

\* ---------------------------------------------------------------------------
\* C21. In every turn the user's Message row is added and flushed before the
\* completion provider is called: the provider is never called in a turn
\* whose user row is not flushed, and the message list sent to it is the
\* thread's stored history in ascending created_at order followed by the
\* current user message exactly once.
StoredBefore(t) ==
    SelectSeq(messages, LAMBDA m : m.thread_id = t.thread_id /\ m.turn # t.id)

HistoryThenMessage(t, sent) ==
    LET stored == StoredBefore(t)
        n == Len(stored)
    IN /\ Len(sent) = n + 1
       /\ sent[n + 1] = [role |-> "user", content |-> t.message]
       /\ \E hist \in OrderedByCreatedAt(stored) :
              \A i \in 1..n :
                  /\ sent[i].content = hist[i].content
                  /\ sent[i].role = hist[i].sender

C21_UserRowFlushedFirst ==
    /\ [](\A s \in Slots :
            \A i \in 1..Len(turn[s].dispatched) :
                HistoryThenMessage(turn[s], turn[s].dispatched[i].messages))
    /\ [][\A s \in Slots :
            (turn'[s].dispatched # <<>> /\ turn'[s].dispatched # turn[s].dispatched) =>
                /\ turn[s].pending = <<MessageRow(turn[s], "user", turn[s].message)>>
                /\ turn'[s].dispatched =
                       <<[provider |-> turn[s].provider, model |-> turn[s].model,
                          api_key |-> turn[s].api_key, system |-> turn[s].prompt,
                          messages |-> turn[s].conversation_messages]>>]_vars

\* the second turn on a thread, dispatched with the first turn's two rows and
\* then its own message
C21_Witness ==
    \E s \in Slots :
        /\ turn[s].id = 2
        /\ Len(turn[s].dispatched) = 1
        /\ Len(turn[s].dispatched[1].messages) = 3
        /\ Len(StoredBefore(turn[s])) = 2

\* ---------------------------------------------------------------------------
\* C22. When the completion call or a later step of step 5 raises, the store
\* holds no assistant Message of that turn, the session keeps none either, and
\* the thread's active model, active provider and last-activity timestamp
\* keep the values they had before the turn.
FailedInStepFive(t) ==
    t.pc = "error" /\ t.fault \in {"completion", "memory_write", "commit"}

C22_FailedTurnLeavesStore ==
    /\ [](\A s \in Slots :
            FailedInStepFive(turn[s]) =>
                /\ \A i \in 1..Len(messages) : messages[i].turn # turn[s].id
                /\ turn[s].pending = <<>>
                /\ threads[turn[s].thread_id].last_message_at # turn[s].id)
    /\ [][\A s \in Slots :
            (turn'[s] # turn[s] /\ turn'[s].pc # "done") =>
                (threads' = threads /\ messages' = messages)]_vars

\* a turn whose commit raised after the reply was complete and the assistant
\* row added
C22_Witness ==
    \E s \in Slots :
        /\ FailedInStepFive(turn[s])
        /\ turn[s].fault = "commit"
        /\ turn[s].reply # <<>>
        /\ turn[s].dispatched # <<>>

\* ---------------------------------------------------------------------------
\* C23. The request search_memories sends is the same for every value of
\* thread_id: it names the scope, the query, the limit and the kinds, with an
\* empty filter; a thread restriction only narrows the parsed episodic
\* results afterwards.
C23_RequestIgnoresThread ==
    (call.op = "search" /\ call.done) =>
        /\ call.request.filter = ""
        /\ \A T \in 0..MaxId :
               call.request = SearchPayload(1, MsgWeather, T, call.project_id, 50,
                                            <<"semantic", "episodic">>)
        /\ LET unfiltered == search_memories(call.resp, 0, TRUE, TRUE).episodic_results
           IN \A i \in 1..Len(call.result.episodic_results) :
                  /\ ThreadMatches(call.result.episodic_results[i], call.thread_id)
                         \/ call.thread_id = 0
                  /\ \E j \in 1..Len(unfiltered) :
                         unfiltered[j] = call.result.episodic_results[i]

\* a search restricted to a thread whose response held episodes of another
\* thread too: the restriction dropped some of them
C23_Witness ==
    /\ call.op = "search" /\ call.done
    /\ call.thread_id # 0
    /\ call.result.episodic_results # <<>>
    /\ Len(call.result.episodic_results)
           < Len(search_memories(call.resp, 0, TRUE, TRUE).episodic_results)

\* ---------------------------------------------------------------------------
\* C24. ensure_project_exists never raises; it makes one outbound call when
\* the remote scope already exists and two when it creates it; it returns
\* false on any failure; a call after a successful one creates nothing and
\* leaves the set of scopes unchanged; add_memory and add_semantic_memory
\* attempt their write whatever it returned.
C24_EnsureProjectExists ==
    (call.op = "ensure" /\ call.done) =>
        LET scope == _get_org_and_project(call.user_id, call.project_id)
            first == call.result.first
            second == call.result.second
            created == first.projects # call.projects
        IN /\ first.ret \in BOOLEAN /\ second.ret \in BOOLEAN
           /\ (scope \in call.projects /\ call.o.get = "ok") =>
                  (first.ret /\ first.calls = 1 /\ ~created)
           /\ created => /\ first.ret /\ first.calls = 2
                          /\ first.projects = call.projects \cup {scope}
           /\ first.ret <=> scope \in first.projects /\ call.o.get # "exc"
                             /\ (call.o.get = "ok" \/ created)
           /\ ~first.ret => ~created
           /\ first.ret => second.projects = first.projects
           /\ Len(call.result.written) = (IF call.o.write THEN 1 ELSE 0)

\* the first call created the scope with two requests, the second found it
\* with one, and a write went out
C24_Witness ==
    /\ call.op = "ensure" /\ call.done
    /\ call.result.first.calls = 2 /\ call.result.first.ret
    /\ call.result.second.calls = 1 /\ call.result.second.ret
    /\ call.result.written # <<>>

\* ---------------------------------------------------------------------------
\* C26. The category tag the orchestrator supplies for a semantic record
\* (user_fact for an extracted fact, file_upload for an uploaded file) is the
\* tag the record carries in the payload sent to the memory service.
C26_CallerTypeKept ==
    \A i \in 1..Len(mm.semantic) :
        LET record == mm.semantic[i] IN
        /\ "type" \in DOMAIN record.metadata
        /\ record.metadata["type"] =
               (IF "filename" \in DOMAIN record.metadata
                THEN PyText("file_upload") ELSE PyText("user_fact"))

\* ---------------------------------------------------------------------------
\* C25. For two turns on different threads interleaved in any order, each
\* turn adds, changes or removes only Message rows of its own thread and its
\* own Thread row; the other thread's messages and fields are what they are
\* when the turns run one after the other.
RowsOf(rows, thread_id) == SelectSeq(rows, LAMBDA m : m.thread_id = thread_id)

C25_TurnsTouchOwnThread ==
    [][\A s \in Slots :
          turn'[s] # turn[s] =>
              LET own == turn'[s].thread_id IN
              /\ \A other \in DOMAIN threads \ {own} :
                     /\ threads'[other] = threads[other]
                     /\ RowsOf(messages', other) = RowsOf(messages, other)
              /\ \/ /\ RowsOf(messages', own) = RowsOf(messages, own)
                    /\ threads'[own] = threads[own]
                 \/ /\ turn'[s].pc = "done"
                    /\ RowsOf(messages', own) = RowsOf(messages, own)
                           \o <<MessageRow(turn[s], "user", turn[s].message),
                                MessageRow(turn[s], "assistant", turn[s].reply)>>
                    /\ threads'[own] =
                          [threads[own] EXCEPT !.active_model = turn[s].model,
                                               !.active_provider = turn[s].provider,
                                               !.last_message_at = turn[s].id]]_vars

\* two turns on different threads, both committed, the one that came in
\* second committed first
C25_Witness ==
    /\ turn[1].pc = "done" /\ turn[2].pc = "done"
    /\ turn[1].thread_id # turn[2].thread_id
    /\ Len(messages) = 4
    /\ messages[1].turn = 2 /\ messages[3].turn = 1

\* ---------------------------------------------------------------------------
\* C27. A turn that ends with thread-not-found, access-denied or
\* missing-credential has no side effect: no Message persisted, no record
\* written to the memory service, no web search and no memory search issued,
\* no completion provider called.
Refused(t) == t.pc = "error" /\ t.status \in {404, 403, 400}

C27_RefusedTurnHasNoEffect ==
    /\ [](\A s \in Slots :
            Refused(turn[s]) =>
                /\ \A i \in 1..Len(messages) : messages[i].turn # turn[s].id
                /\ turn[s].pending = <<>>
                /\ turn[s].mem_calls = 0
                /\ ~turn[s].searched
                /\ turn[s].response = IdleTurn.response
                /\ turn[s].dispatched = <<>>)
    /\ [][\A s \in Slots :
             (turn'[s] # turn[s] /\ Refused(turn'[s])) =>
                 (mm' = mm /\ messages' = messages /\ threads' = threads)]_vars

\* a member of the project whose only key is of another provider and whose
\* turn ended with 400
C27_Witness ==
    \E s \in Slots :
        /\ Refused(turn[s])
        /\ turn[s].status = 400
        /\ threads[turn[s].thread_id].project_id # NoProject

\* ---------------------------------------------------------------------------
\* C28. For the same request and the same stored state chat_stream and
\* chat_endpoint make the same decisions: provider, model and key, the
\* web-search trigger, the search query and the location filter, and the
\* split of the retrieved memories.  Stated of one turn: what it decided is
\* what either endpoint decides from its request.
C28_EndpointsDecideAlike ==
    \A s \in Slots :
        LET t == turn[s]
            r == ResolveProvider(t.requested_model, users[t.user].keys)
            split == SplitEpisodes(t.episodes, t.thread_id, 1, <<>>, <<>>)
        IN (t.pc \in Gathered) =>
              /\ t.provider = r.provider /\ t.model = r.model /\ t.api_key = r.api_key
              /\ t.searched = (Truthy(TavilyKey(t.user)) /\ should_search_web(t.message))
              /\ t.current_thread_memories = split.current
              /\ t.other_thread_memories = split.other
              /\ t.searched =>
                    \A endpoint \in {"stream", "plain"} :
                        LET weather == HasWeatherKeyword(endpoint, t.message) IN
                        /\ t.filter_location =
                               (IF weather THEN t.user_location ELSE NoLocation)
                        /\ (t.search_query # t.message)
                               <=> (weather /\ t.user_location # NoLocation)

\* ---------------------------------------------------------------------------
\* C29. In every state reachable by creating threads, changing project
\* membership and deleting threads, every thread list_threads returns for a
\* user passes the access check of get_thread and of the chat endpoints, and
\* every thread that passes the access check is returned by list_threads.
C29_ListedIffAccessible ==
    \A u \in Users, i \in ThreadIds :
        /\ i \in list_threads(u) <=> get_thread(i, u) = 200
        /\ i \in list_threads(u)
               <=> (threads[i].exists /\ _ensure_access(threads[i], u, members))

\* ---------------------------------------------------------------------------
\* C30. save_api_keys is all-or-nothing: when at least one supplied key fails
\* format validation the request ends with 400 and none of the user's stored
\* keys is changed; when all supplied keys are valid exactly the supplied
\* keys are replaced and the others are unchanged.
C30_SaveKeysAllOrNothing ==
    [][call'.op = "save_api_keys" =>
          LET u == call'.user
              k == call'.supplied
          IN /\ \A v \in Users \ {u} : users'[v] = users[v]
             /\ (\E p \in DOMAIN k : k[p] = "invalid") =>
                    (call'.status = 400 /\ users' = users)
             /\ (\A p \in DOMAIN k : k[p] # "invalid") =>
                    /\ call'.status = 200
                    /\ \A p \in DOMAIN k :
                           IF k[p] = "valid"
                           THEN /\ Truthy(users'[u].keys[p])
                                /\ users'[u].keys[p].v = "key2"
                           ELSE users'[u].keys[p] = users[u].keys[p]]_vars

\* a request with a well-formed key for a provider the user holds a key of
\* and a malformed one: refused with 400, the held key still the old one
C30_Witness ==
    /\ call.op = "save_api_keys" /\ call.status = 400
    /\ \E p, q \in DOMAIN call.supplied :
           /\ call.supplied[p] = "valid" /\ call.supplied[q] = "invalid"
           /\ users[call.user].keys[p] = KeyOf(call.user, p)

====
